---- MODULE Spec2Model ----
(***************************************************************************)
(* A model of the budget automation pipeline of                            *)
(* stacks/budget-automation/budget_automation.py: transaction              *)
(* aggregation, metrics, the SQLite history store, trends and alerts.      *)
(*                                                                         *)
(* Python floats are IEEE-754 binary64.  They are modelled exactly: a      *)
(* float is a record [s, m, e] standing for (-1)^s * m * 2^e, where m is   *)
(* a natural number of at most MantBits bits kept as a little-endian       *)
(* sequence of base-2^15 limbs (TLC's integers are 32 bits wide), odd or   *)
(* zero so that a value has one representation.  Every operation computes  *)
(* the exact result and rounds it once, to nearest, ties to even, as the   *)
(* hardware does.  The exponent range is not modelled: the amounts of the  *)
(* model stay far from overflow and from the subnormal range.  The sign    *)
(* of zero is not modelled (Python compares -0.0 equal to 0.0).            *)
(***************************************************************************)
EXTENDS Integers, Sequences, FiniteSets, TLC

(***************************************************************************)
(* Natural numbers of any size: little-endian limbs, no zero top limb.     *)
(***************************************************************************)
Base == 2 ^ 15

RECURSIVE BitLenSmall(_)
BitLenSmall(n) == IF n = 0 THEN 0 ELSE 1 + BitLenSmall(n \div 2)

LimbBits == BitLenSmall(Base - 1)

RECURSIVE NNorm(_)
NNorm(a) ==
    IF a = <<>> THEN <<>>
    ELSE IF a[Len(a)] = 0 THEN NNorm(SubSeq(a, 1, Len(a) - 1))
    ELSE a

RECURSIVE NFromInt(_)
NFromInt(n) ==
    IF n = 0 THEN <<>> ELSE <<n % Base>> \o NFromInt(n \div Base)

RECURSIVE NToInt(_)
NToInt(a) ==
    IF a = <<>> THEN 0 ELSE Head(a) + Base * NToInt(Tail(a))

RECURSIVE NAddC(_, _, _)
NAddC(a, b, c) ==
    IF a = <<>> /\ b = <<>> THEN (IF c = 0 THEN <<>> ELSE <<c>>)
    ELSE LET x == IF a = <<>> THEN 0 ELSE Head(a)
             y == IF b = <<>> THEN 0 ELSE Head(b)
             t == x + y + c
         IN  <<t % Base>> \o NAddC(IF a = <<>> THEN <<>> ELSE Tail(a),
                                   IF b = <<>> THEN <<>> ELSE Tail(b),
                                   t \div Base)

NAdd(a, b) == NAddC(a, b, 0)

RECURSIVE NSubB(_, _, _)
NSubB(a, b, br) ==
    IF a = <<>> THEN <<>>
    ELSE LET y == IF b = <<>> THEN 0 ELSE Head(b)
             t == Head(a) - y - br
         IN  <<t % Base>> \o NSubB(Tail(a),
                                   IF b = <<>> THEN <<>> ELSE Tail(b),
                                   IF t < 0 THEN 1 ELSE 0)

\* a - b for a >= b
NSub(a, b) == NNorm(NSubB(a, b, 0))

RECURSIVE NCmpFrom(_, _, _)
NCmpFrom(a, b, i) ==
    IF i = 0 THEN 0
    ELSE IF a[i] > b[i] THEN 1
    ELSE IF a[i] < b[i] THEN -1
    ELSE NCmpFrom(a, b, i - 1)

\* -1, 0 or 1 as a < b, a = b or a > b
NCmp(a, b) ==
    IF Len(a) > Len(b) THEN 1
    ELSE IF Len(a) < Len(b) THEN -1
    ELSE NCmpFrom(a, b, Len(a))

RECURSIVE NMulSmallC(_, _, _)
NMulSmallC(a, k, c) ==
    IF a = <<>> THEN NFromInt(c)
    ELSE LET t == Head(a) * k + c
         IN  <<t % Base>> \o NMulSmallC(Tail(a), k, t \div Base)

\* a * k for 0 <= k < Base
NMulSmall(a, k) == NNorm(NMulSmallC(a, k, 0))

RECURSIVE NDivRec(_, _)
NDivRec(a, d) ==
    IF a = <<>> THEN [q |-> <<>>, r |-> 0]
    ELSE LET hi  == NDivRec(Tail(a), d)
             cur == hi.r * Base + Head(a)
         IN  [q |-> <<cur \div d>> \o hi.q, r |-> cur % d]

\* quotient and remainder of a by d, for 0 < d < Base
NDivSmall(a, d) ==
    LET qr == NDivRec(a, d) IN [q |-> NNorm(qr.q), r |-> qr.r]

NBitLen(a) ==
    IF a = <<>> THEN 0 ELSE LimbBits * (Len(a) - 1) + BitLenSmall(a[Len(a)])

NShl(a, s) ==
    IF a = <<>> THEN <<>>
    ELSE [i \in 1..(s \div LimbBits) |-> 0] \o NMulSmall(a, 2 ^ (s % LimbBits))

NShr(a, s) ==
    LET q == s \div LimbBits
        rest == IF q >= Len(a) THEN <<>> ELSE SubSeq(a, q + 1, Len(a))
    IN  NDivSmall(rest, 2 ^ (s % LimbBits)).q

NBit(a, i) ==
    LET k == i \div LimbBits + 1
    IN  IF k > Len(a) THEN 0 ELSE (a[k] \div (2 ^ (i % LimbBits))) % 2

\* a mod 2^s = 0
NLowZero(a, s) ==
    LET q == s \div LimbBits
    IN  /\ \A i \in 1..q : i > Len(a) \/ a[i] = 0
        /\ q >= Len(a) \/ a[q + 1] % (2 ^ (s % LimbBits)) = 0

\* the number of zero bits below the lowest one bit of a > 0
NTrailingZeros(a) ==
    LET q == CHOOSE i \in 0..(Len(a) - 1) :
                 a[i + 1] # 0 /\ \A j \in 1..i : a[j] = 0
        r == CHOOSE k \in 0..(LimbBits - 1) :
                 a[q + 1] % (2 ^ k) = 0 /\ (a[q + 1] \div (2 ^ k)) % 2 = 1
    IN  q * LimbBits + r

(***************************************************************************)
(* binary64 values and their arithmetic.                                   *)
(***************************************************************************)
MantBits == 53

FZero == [s |-> 0, m |-> <<>>, e |-> 0]

\* The value a Python expression has when it raised ZeroDivisionError
\* instead of returning; every operation passes it on.
ZeroDivisionError == [s |-> 2, m |-> <<>>, e |-> 0]

IsRaised(x) == x.s = 2

FNorm(s, N, e) ==
    IF N = <<>> THEN FZero
    ELSE LET tz == NTrailingZeros(N)
         IN  [s |-> s, m |-> NShr(N, tz), e |-> e + tz]

\* N * 2^e (plus a positive remainder below one unit of N when sticky),
\* rounded to MantBits bits, to nearest, ties to even.
FRound(s, N, e, sticky) ==
    LET L == NBitLen(N)
    IN  IF L <= MantBits THEN FNorm(s, N, e)
        ELSE LET sh   == L - MantBits
                 q    == NShr(N, sh)
                 half == NBit(N, sh - 1) = 1
                 rest == sticky \/ ~NLowZero(N, sh - 1)
                 up   == half /\ (rest \/ NBit(q, 0) = 1)
             IN  FNorm(s, IF up THEN NAdd(q, <<1>>) ELSE q, e + sh)

\* float(i) for a Python int i of the model's range
FromInt(i) ==
    IF i >= 0 THEN FRound(0, NFromInt(i), 0, FALSE)
    ELSE FRound(1, NFromInt(-i), 0, FALSE)

FNeg(x) ==
    IF IsRaised(x) \/ x.m = <<>> THEN x ELSE [x EXCEPT !.s = 1 - x.s]

\* x + y, exactly: the mantissa of the result may exceed MantBits bits
FAddExact(x, y) ==
    IF IsRaised(x) THEN x
    ELSE IF IsRaised(y) THEN y
    ELSE IF x.m = <<>> THEN y
    ELSE IF y.m = <<>> THEN x
    ELSE LET e0 == IF x.e < y.e THEN x.e ELSE y.e
             a  == NShl(x.m, x.e - e0)
             b  == NShl(y.m, y.e - e0)
             c  == NCmp(a, b)
         IN  IF x.s = y.s THEN FNorm(x.s, NAdd(a, b), e0)
             ELSE IF c = 0 THEN FZero
             ELSE IF c = 1 THEN FNorm(x.s, NSub(a, b), e0)
             ELSE FNorm(y.s, NSub(b, a), e0)

FAdd(x, y) ==
    LET z == FAddExact(x, y)
    IN  IF IsRaised(z) THEN z ELSE FRound(z.s, z.m, z.e, FALSE)

FSub(x, y) == FAdd(x, FNeg(y))

\* x * k for a float x and a Python int k, |k| < Base
FMulInt(x, k) ==
    IF IsRaised(x) THEN x
    ELSE IF k = 0 \/ x.m = <<>> THEN FZero
    ELSE LET ka == IF k < 0 THEN -k ELSE k
             sg == IF k < 0 THEN 1 - x.s ELSE x.s
         IN  FRound(sg, NMulSmall(x.m, ka), x.e, FALSE)

\* x / d for a float x and a Python int d, |d| < Base; raises on d = 0
FDivInt(x, d) ==
    IF IsRaised(x) THEN x
    ELSE IF d = 0 THEN ZeroDivisionError
    ELSE IF x.m = <<>> THEN FZero
    ELSE LET da == IF d < 0 THEN -d ELSE d
             sg == IF d < 0 THEN 1 - x.s ELSE x.s
             k  == MantBits + 2 + LimbBits
             qr == NDivSmall(NShl(x.m, k), da)
         IN  FRound(sg, qr.q, x.e - k, qr.r # 0)

\* -1, 0 or 1 as x < y, x = y or x > y
FCmp(x, y) ==
    LET d == FSub(x, y)
    IN  IF d.m = <<>> THEN 0 ELSE IF d.s = 1 THEN -1 ELSE 1

FLt(x, y) == FCmp(x, y) = -1
FLe(x, y) == FCmp(x, y) <= 0
FGt(x, y) == FCmp(x, y) = 1
FGe(x, y) == FCmp(x, y) >= 0

\* round(x) to an integer, ties to even: what the ':.0f' format prints
FRoundToInt(x) ==
    IF x.m = <<>> THEN 0
    ELSE LET sh   == IF x.e < 0 THEN -x.e ELSE 0
             q    == IF x.e < 0 THEN NShr(x.m, sh) ELSE NShl(x.m, x.e)
             half == sh > 0 /\ NBit(x.m, sh - 1) = 1
             rest == sh > 1 /\ ~NLowZero(x.m, sh - 1)
             up   == half /\ (rest \/ NBit(q, 0) = 1)
             n    == NToInt(q) + (IF up THEN 1 ELSE 0)
         IN  IF x.s = 1 THEN -n ELSE n

(***************************************************************************)
(* Python dicts, as functions on their key sets.                           *)
(***************************************************************************)
EmptyDict == [k \in {} |-> FZero]

DictGet(d, k, default) == IF k \in DOMAIN d THEN d[k] ELSE default

DictSet(d, k, v) == [x \in (DOMAIN d) \cup {k} |-> IF x = k THEN v ELSE d[x]]

Abs(n) == IF n < 0 THEN -n ELSE n

(***************************************************************************)
(* setup_categories.  The icons of the labels are written as :name: tags.  *)
(* A raw label of the provider has two spaces after its icon, a budget     *)
(* category one.                                                           *)
(***************************************************************************)
Groceries     == ":carrot: Groceries"
Shopping      == ":cart: Shopping & Personal"
DiningOut     == ":plate: Dining Out"
Transport     == ":car: Transportation"
Medical       == ":hospital: Services & Medical"
PetCare       == ":dog: Pet Care"
Entertainment == ":game: Entertainment & Tech"
HomeMaint     == ":wrench: Home Maintenance"

category_mapping ==
    [l \in {":carrot:  Groceries", ":couch:  Shopping", ":yoga:  Personal Care",
            ":bottle:  Baby Supplies", ":bagel:  Dining Out", ":fuel:  Gas",
            ":doctor:  Medical & Pediatric", ":guidedog:  Pet Stuff",
            ":repeat:   Subscriptions", ":popcorn:  Entertainment",
            ":hammer:  Home Maintenance / HOA"} |->
        CASE l = ":carrot:  Groceries"            -> Groceries
          [] l = ":couch:  Shopping"              -> Shopping
          [] l = ":yoga:  Personal Care"          -> Shopping
          [] l = ":bottle:  Baby Supplies"        -> Shopping
          [] l = ":bagel:  Dining Out"            -> DiningOut
          [] l = ":fuel:  Gas"                    -> Transport
          [] l = ":doctor:  Medical & Pediatric"  -> Medical
          [] l = ":guidedog:  Pet Stuff"          -> PetCare
          [] l = ":repeat:   Subscriptions"       -> Entertainment
          [] l = ":popcorn:  Entertainment"       -> Entertainment
          [] l = ":hammer:  Home Maintenance / HOA" -> HomeMaint]

\* the keys of monthly_targets in the order the dict holds them
TargetOrder ==
    <<Groceries, Shopping, DiningOut, Transport, Medical, PetCare,
      Entertainment, HomeMaint>>

ConfiguredTargets ==
    [c \in {TargetOrder[i] : i \in 1..Len(TargetOrder)} |->
        CASE c = Groceries     -> 900
          [] c = Shopping      -> 675
          [] c = DiningOut     -> 250
          [] c = Transport     -> 150
          [] c = Medical       -> 400
          [] c = PetCare       -> 300
          [] c = Entertainment -> 125
          [] c = HomeMaint     -> 101]

(***************************************************************************)
(* process_transactions.  A transaction is a record with an amount in      *)
(* milliunits and, unless the provider left it out, a category_name.       *)
(***************************************************************************)
\* transaction.get('category_name', 'Uncategorized')
CategoryNameOf(transaction) ==
    IF "category_name" \in DOMAIN transaction
    THEN transaction.category_name ELSE "Uncategorized"

\* process_one_transaction without the test of the sign: inflows are summed
process_one_transaction_any_sign(spending_by_category, transaction, targets) ==
    LET category_name   == CategoryNameOf(transaction)
        mapped_category == DictGet(category_mapping, category_name,
                                   category_name)
    IN  IF mapped_category \in DOMAIN targets
        THEN LET amount == FDivInt(FromInt(Abs(transaction.amount)), 1000)
             IN  DictSet(spending_by_category, mapped_category,
                         FAdd(DictGet(spending_by_category,
                                      mapped_category, FZero),
                              amount))
        ELSE spending_by_category

\* process_one_transaction without the test of the targets: every label
\* becomes a key
process_one_transaction_unfiltered(spending_by_category, transaction, targets) ==
    IF transaction.amount < 0
    THEN LET category_name   == CategoryNameOf(transaction)
             mapped_category == DictGet(category_mapping, category_name,
                                        category_name)
             amount == FDivInt(FromInt(Abs(transaction.amount)), 1000)
         IN  DictSet(spending_by_category, mapped_category,
                     FAdd(DictGet(spending_by_category, mapped_category,
                                  FZero),
                          amount))
    ELSE spending_by_category

\* the loop body: one transaction folded into spending_by_category
process_one_transaction(spending_by_category, transaction, targets) ==
    IF transaction.amount < 0
    THEN LET category_name   == CategoryNameOf(transaction)
             mapped_category == DictGet(category_mapping, category_name,
                                        category_name)
         IN  IF mapped_category \in DOMAIN targets
             THEN LET amount == FDivInt(FromInt(Abs(transaction.amount)), 1000)
                  IN  DictSet(spending_by_category, mapped_category,
                              FAdd(DictGet(spending_by_category,
                                           mapped_category, FZero),
                                   amount))
             ELSE spending_by_category
    ELSE spending_by_category

RECURSIVE process_loop(_, _, _)
process_loop(spending_by_category, transactions, targets) ==
    IF transactions = <<>> THEN spending_by_category
    ELSE process_loop(process_one_transaction(spending_by_category,
                                              Head(transactions), targets),
                      Tail(transactions), targets)

process_transactions(transactions, targets) ==
    process_loop(EmptyDict, transactions, targets)

(***************************************************************************)
(* calculate_metrics                                                       *)
(***************************************************************************)
\* Percentage without the test of the target
Percentage_unguarded(spent, target) == FMulInt(FDivInt(spent, target), 100)

Percentage(spent, target) ==
    IF target > 0 THEN FMulInt(FDivInt(spent, target), 100) ELSE FZero

\* StatusOf with >= for > at the upper limit
StatusOf_inclusive(percentage) ==
    IF FGe(percentage, FromInt(100))
    THEN [status |-> "Over Budget", status_color |-> "#dc3545"]
    ELSE IF FGt(percentage, FromInt(90))
    THEN [status |-> "Close to Limit", status_color |-> "#ffc107"]
    ELSE [status |-> "On Track", status_color |-> "#28a745"]

StatusOf(percentage) ==
    IF FGt(percentage, FromInt(100))
    THEN [status |-> "Over Budget", status_color |-> "#dc3545"]
    ELSE IF FGt(percentage, FromInt(90))
    THEN [status |-> "Close to Limit", status_color |-> "#ffc107"]
    ELSE [status |-> "On Track", status_color |-> "#28a745"]

\* MetricOf with the percentage capped at 100
MetricOf_capped(spent, target) ==
    LET computed   == Percentage(spent, target)
        percentage == IF FGt(computed, FromInt(100))
                      THEN FromInt(100) ELSE computed
        st         == StatusOf(percentage)
    IN  [spent |-> spent, target |-> target, percentage |-> percentage,
         status |-> st.status, status_color |-> st.status_color]

MetricOf(spent, target) ==
    LET percentage == Percentage(spent, target)
        st         == StatusOf(percentage)
    IN  [spent |-> spent, target |-> target, percentage |-> percentage,
         status |-> st.status, status_color |-> st.status_color]

\* calculate_metrics over the categories that have spending only
calculate_metrics_of_spending(spending_data, targets) ==
    [category \in (DOMAIN targets) \cap (DOMAIN spending_data) |->
        MetricOf(spending_data[category], targets[category])]

calculate_metrics(spending_data, targets) ==
    [category \in DOMAIN targets |->
        MetricOf(DictGet(spending_data, category, FZero), targets[category])]

\* whether calculate_metrics raises instead of returning
calculate_metrics_raises(spending_data, targets) ==
    \E category \in DOMAIN targets :
        IsRaised(Percentage(DictGet(spending_data, category, FZero),
                            targets[category]))

(***************************************************************************)
(* The SQLite store (setup_database).  A date is the ordinal of its day:   *)
(* the '%Y-%m-%d' strings of the code compare as their days do.            *)
(* daily_spending is [rows, seq]: the rows of the table, each with its     *)
(* AUTOINCREMENT id, and the last id handed out.  The created_at column    *)
(* of daily_spending is read nowhere and is left out.  spending_alerts is  *)
(* the sequence of its rows in id order.                                   *)
(***************************************************************************)
EmptyTable == [rows |-> {}, seq |-> 0]

\* INSERT OR IGNORE: a row in conflict keeps the new one out
insert_or_ignore(table, row) ==
    IF \E r \in table.rows : r.date = row.date /\ r.category = row.category
    THEN table
    ELSE [rows |-> table.rows
                   \cup {[id |-> table.seq + 1, date |-> row.date,
                          category |-> row.category, amount |-> row.amount,
                          month_budget |-> row.month_budget,
                          percentage |-> row.percentage]},
          seq |-> table.seq + 1]

\* INSERT into a table without the UNIQUE constraint
insert_unconstrained(table, row) ==
    [rows |-> table.rows
              \cup {[id |-> table.seq + 1, date |-> row.date,
                     category |-> row.category, amount |-> row.amount,
                     month_budget |-> row.month_budget,
                     percentage |-> row.percentage]},
     seq |-> table.seq + 1]

\* an insert that, on a conflict, overwrites the amount of the row in
\* conflict and leaves its other columns
insert_or_update_amount(table, row) ==
    IF \E r \in table.rows : r.date = row.date /\ r.category = row.category
    THEN [rows |-> {IF r.date = row.date /\ r.category = row.category
                    THEN [r EXCEPT !.amount = row.amount] ELSE r :
                        r \in table.rows},
          seq |-> table.seq]
    ELSE [rows |-> table.rows
                   \cup {[id |-> table.seq + 1, date |-> row.date,
                          category |-> row.category, amount |-> row.amount,
                          month_budget |-> row.month_budget,
                          percentage |-> row.percentage]},
          seq |-> table.seq + 1]

\* INSERT OR REPLACE under UNIQUE(date, category): the rows in conflict
\* are deleted, then the new row is inserted under a fresh id
insert_or_replace(table, row) ==
    [rows |-> {r \in table.rows :
                  ~(r.date = row.date /\ r.category = row.category)}
              \cup {[id |-> table.seq + 1, date |-> row.date,
                     category |-> row.category, amount |-> row.amount,
                     month_budget |-> row.month_budget,
                     percentage |-> row.percentage]},
     seq |-> table.seq + 1]

RECURSIVE save_loop(_, _, _, _)
save_loop(table, categories, date, metrics) ==
    IF categories = <<>> THEN table
    ELSE LET category == Head(categories)
             data     == metrics[category]
         IN  save_loop(insert_or_replace(table,
                            [date |-> date, category |-> category,
                             amount |-> data.spent,
                             month_budget |-> FromInt(data.target),
                             percentage |-> data.percentage]),
                       Tail(categories), date, metrics)

\* the table after save_daily_data; metrics is iterated in dict order
save_daily_data(table, date, metrics) ==
    save_loop(table, SelectSeq(TargetOrder, LAMBDA c : c \in DOMAIN metrics),
              date, metrics)

\* ORDER BY date ASC (rows of one date in id order)
OrderByDate(rows) ==
    LET Before(a, b) == a.date < b.date \/ (a.date = b.date /\ a.id < b.id)
    IN  [i \in 1..Cardinality(rows) |->
            CHOOSE r \in rows :
                Cardinality({o \in rows : Before(o, r)}) = i - 1]

\* get_historical_data with WHERE date > ?: the cutoff day is left out
get_historical_data_after_cutoff(table, date, days) ==
    LET cutoff_date == date - days
        selected    == {r \in table.rows : r.date > cutoff_date}
    IN  [c \in {r.category : r \in selected} |->
            LET ordered == OrderByDate({r \in selected : r.category = c})
            IN  [i \in 1..Len(ordered) |->
                    [date |-> ordered[i].date, amount |-> ordered[i].amount,
                     percentage |-> ordered[i].percentage]]]

get_historical_data(table, date, days) ==
    LET cutoff_date == date - days
        selected    == {r \in table.rows : r.date >= cutoff_date}
    IN  [c \in {r.category : r \in selected} |->
            LET ordered == OrderByDate({r \in selected : r.category = c})
            IN  [i \in 1..Len(ordered) |->
                    [date |-> ordered[i].date, amount |-> ordered[i].amount,
                     percentage |-> ordered[i].percentage]]]

\* the budget categories in the order of their UTF-8 bytes, which is the
\* order of the code points of their icons (BINARY collation)
CategoryAscending ==
    <<DiningOut, Entertainment, Medical, PetCare, HomeMaint, Transport,
      Shopping, Groceries>>

\* ORDER BY date ASC, category ASC on rows that UNIQUE(date, category)
\* keeps apart: day after day, the rows of the day by category
RECURSIVE OrderFrom(_, _, _)
OrderFrom(rows, date, last) ==
    IF date > last THEN <<>>
    ELSE LET of_day == {r \in rows : r.date = date}
             held   == SelectSeq(CategoryAscending,
                           LAMBDA c : \E r \in of_day : r.category = c)
         IN  [i \in 1..Len(held) |->
                 CHOOSE r \in of_day : r.category = held[i]]
             \o OrderFrom(rows, date + 1, last)

OrderByDateCategory(rows) ==
    IF rows = {} THEN <<>>
    ELSE LET dates == {r.date : r \in rows}
             first == CHOOSE d \in dates : \A o \in dates : d <= o
             last  == CHOOSE d \in dates : \A o \in dates : d >= o
         IN  OrderFrom(rows, first, last)

\* the answer of GET /api/history?days=N, with the path of the request;
\* exists is os.path.exists(db_path)
serve_historical_data(table, date, days, exists) ==
    IF ~exists
    THEN [path |-> "/api/history", status |-> 404,
          message |-> "No historical data available"]
    ELSE LET cutoff_date == date - days
             rows == OrderByDateCategory({r \in table.rows :
                                             r.date >= cutoff_date})
             data == [i \in 1..Len(rows) |->
                         [date |-> rows[i].date, category |-> rows[i].category,
                          amount |-> rows[i].amount,
                          percentage |-> rows[i].percentage,
                          month_budget |-> rows[i].month_budget]]
         IN  [path |-> "/api/history", status |-> 200, days |-> days,
              start_date |-> cutoff_date, data |-> data,
              count |-> Len(data)]

(***************************************************************************)
(* calculate_spending_trends.  sum() adds left to right from the int 0,    *)
(* as CPython before 3.12 does (from 3.12 on sum() compensates rounding    *)
(* errors, which shows only where a partial sum is inexact).               *)
(* statistics.mean sums exactly and rounds the quotient once.              *)
(***************************************************************************)
DaysInMonth == 31

\* datetime.now().day, for a run of 31-day months
DayOfMonth(date) == ((date - 1) % DaysInMonth) + 1

\* s[-n:]
LastN(s, n) == IF Len(s) <= n THEN s ELSE SubSeq(s, Len(s) - n + 1, Len(s))

RECURSIVE SumInts(_)
SumInts(s) == IF s = <<>> THEN 0 ELSE Head(s) + SumInts(Tail(s))

RECURSIVE FSumFrom(_, _)
FSumFrom(acc, s) ==
    IF s = <<>> THEN acc ELSE FSumFrom(FAdd(acc, Head(s)), Tail(s))

\* sum(s) of a list of floats
FSum(s) == FSumFrom(FZero, s)

RECURSIVE FSumExactFrom(_, _)
FSumExactFrom(acc, s) ==
    IF s = <<>> THEN acc ELSE FSumExactFrom(FAddExact(acc, Head(s)), Tail(s))

\* statistics.mean(s) of a non-empty list of floats
Mean(s) == FDivInt(FSumExactFrom(FZero, s), Len(s))

\* n * sum_x2 - sum_x * sum_x for x_values = 0 .. n-1
RegressionDenominator(n) ==
    LET x_values == [i \in 1..n |-> i - 1]
        sum_x    == SumInts(x_values)
        sum_x2   == SumInts([i \in 1..n |-> x_values[i] * x_values[i]])
    IN  n * sum_x2 - sum_x * sum_x

Slope(amounts) ==
    LET n        == Len(amounts)
        x_values == [i \in 1..n |-> i - 1]
        sum_x    == SumInts(x_values)
        sum_y    == FSum(amounts)
        sum_xy   == FSum([i \in 1..n |-> FMulInt(amounts[i], x_values[i])])
    IN  FDivInt(FSub(FMulInt(sum_xy, n), FMulInt(sum_y, sum_x)),
                RegressionDenominator(n))

\* TrendLabel with >= for > and <= for <
TrendLabel_inclusive(slope) ==
    IF FGe(slope, FromInt(5))
    THEN [trend |-> "Increasing", trend_color |-> "#dc3545"]
    ELSE IF FLe(slope, FromInt(-5))
    THEN [trend |-> "Decreasing", trend_color |-> "#28a745"]
    ELSE [trend |-> "Stable", trend_color |-> "#6c757d"]

TrendLabel(slope) ==
    IF FGt(slope, FromInt(5))
    THEN [trend |-> "Increasing", trend_color |-> "#dc3545"]
    ELSE IF FLt(slope, FromInt(-5))
    THEN [trend |-> "Decreasing", trend_color |-> "#28a745"]
    ELSE [trend |-> "Stable", trend_color |-> "#6c757d"]

\* TrendOf without the max(0, ...) of the projection
TrendOf_unfloored(amounts, date) ==
    LET slope                == Slope(amounts)
        label                == TrendLabel(slope)
        days_left            == 30 - DayOfMonth(date)
        projected_additional == FMulInt(slope, days_left)
        current_amount       == amounts[Len(amounts)]
        projected_total      == FAdd(current_amount, projected_additional)
    IN  [trend |-> label.trend, trend_color |-> label.trend_color,
         slope |-> slope, projected_total |-> projected_total,
         avg_daily |-> IF Len(amounts) >= 7
                       THEN Mean(LastN(amounts, 7)) ELSE FZero]

\* the entry of trends for a category whose window holds 2 points or more
TrendOf(amounts, date) ==
    LET slope                == Slope(amounts)
        label                == TrendLabel(slope)
        days_left            == 30 - DayOfMonth(date)
        projected_additional == FMulInt(slope, days_left)
        current_amount       == amounts[Len(amounts)]
        projected_total      ==
            FAdd(current_amount,
                 IF FGt(projected_additional, FZero)
                 THEN projected_additional ELSE FZero)
    IN  [trend |-> label.trend, trend_color |-> label.trend_color,
         slope |-> slope, projected_total |-> projected_total,
         avg_daily |-> IF Len(amounts) >= 7
                       THEN Mean(LastN(amounts, 7)) ELSE FZero]

\* WindowAmounts without the [-14:]: the amounts of every point
WindowAmounts_whole(data_points) ==
    [i \in 1..Len(data_points) |-> data_points[i].amount]

\* amounts of the window of a category: data_points[-14:]
WindowAmounts(data_points) ==
    LET window == LastN(data_points, 14)
    IN  [i \in 1..Len(window) |-> window[i].amount]

\* TooFewPoints with <= for <
TooFewPoints_inclusive(data_points) == Len(data_points) <= 7

\* whether the loop skips the category (the continue of line 169)
TooFewPoints(data_points) == Len(data_points) < 7

calculate_spending_trends(historical_data, date) ==
    [category \in {c \in DOMAIN historical_data :
                       /\ ~TooFewPoints(historical_data[c])
                       /\ Len(WindowAmounts(historical_data[c])) >= 2} |->
        TrendOf(WindowAmounts(historical_data[category]), date)]

\* whether calculate_spending_trends raises instead of returning: the
\* division of line 183 is the one operation of the loop that can
calculate_spending_trends_raises(historical_data, date) ==
    \E c \in DOMAIN historical_data :
        /\ ~TooFewPoints(historical_data[c])
        /\ Len(WindowAmounts(historical_data[c])) >= 2
        /\ RegressionDenominator(Len(WindowAmounts(historical_data[c]))) = 0

(***************************************************************************)
(* check_spending_alerts.  A message is kept as its category, its wording  *)
(* and the number the ':.0f' format prints.                                *)
(***************************************************************************)
\* AlertsOf with > for >= at the threshold
AlertsOf_exclusive(category, data, threshold) ==
    LET percentage == data.percentage
    IN  IF FGt(percentage, threshold) /\ FLt(percentage, FromInt(100))
        THEN <<[type |-> "high_spending", category |-> category,
                message |-> [category |-> category,
                             text |-> "is at N% of monthly budget",
                             N |-> FRoundToInt(percentage)],
                severity |-> "warning"]>>
        ELSE IF FGe(percentage, FromInt(100))
        THEN <<[type |-> "over_budget", category |-> category,
                message |-> [category |-> category,
                             text |-> "is OVER BUDGET at N%",
                             N |-> FRoundToInt(percentage)],
                severity |-> "danger"]>>
        ELSE <<>>

\* the alerts one category adds to the list: none or one
AlertsOf(category, data, threshold) ==
    LET percentage == data.percentage
    IN  IF FGe(percentage, threshold) /\ FLt(percentage, FromInt(100))
        THEN <<[type |-> "high_spending", category |-> category,
                message |-> [category |-> category,
                             text |-> "is at N% of monthly budget",
                             N |-> FRoundToInt(percentage)],
                severity |-> "warning"]>>
        ELSE IF FGe(percentage, FromInt(100))
        THEN <<[type |-> "over_budget", category |-> category,
                message |-> [category |-> category,
                             text |-> "is OVER BUDGET at N%",
                             N |-> FRoundToInt(percentage)],
                severity |-> "danger"]>>
        ELSE <<>>

RECURSIVE alerts_loop(_, _, _)
alerts_loop(categories, metrics, threshold) ==
    IF categories = <<>> THEN <<>>
    ELSE AlertsOf(Head(categories), metrics[Head(categories)], threshold)
         \o alerts_loop(Tail(categories), metrics, threshold)

\* the list check_spending_alerts returns
check_spending_alerts(metrics, threshold) ==
    alerts_loop(SelectSeq(TargetOrder, LAMBDA c : c \in DOMAIN metrics),
                metrics, threshold)

\* the spending_alerts row the code inserts with an alert
\* created_at is the column's default, CURRENT_TIMESTAMP
AlertRow(alert, date, created_at) ==
    [date |-> date, category |-> alert.category, alert_type |-> alert.type,
     message |-> alert.message, created_at |-> created_at]

\* record_alerts that skips a row the table holds already
record_alerts_deduplicated(table, alerts, date, created_at) ==
    table \o SelectSeq([i \in 1..Len(alerts) |->
                           AlertRow(alerts[i], date, created_at)],
                       LAMBDA row : \A j \in 1..Len(table) :
                           \/ table[j].date # row.date
                           \/ table[j].category # row.category
                           \/ table[j].alert_type # row.alert_type
                           \/ table[j].message # row.message)

\* spending_alerts after check_spending_alerts: one INSERT per alert
record_alerts(table, alerts, date, created_at) ==
    table \o [i \in 1..Len(alerts) |-> AlertRow(alerts[i], date, created_at)]

\* LIMIT 50 of the alert query
AlertLimit == 50

\* the positions of the rows the alert query selects, most recent first:
\* WHERE date >= date('now', '-7 days') ORDER BY created_at DESC, where
\* the UTC date of the request is the local one.  SQL leaves the order of
\* rows of one created_at open: ties is the order the engine gives them.
RECURSIVE MostRecentFirst(_, _, _)
MostRecentFirst(table, rows, ties) ==
    IF rows = {} THEN <<>>
    ELSE LET Before(i, j) ==
                 \/ table[i].created_at > table[j].created_at
                 \/ /\ table[i].created_at = table[j].created_at
                    /\ IF ties = "rowid ascending" THEN i < j ELSE i > j
             first == CHOOSE i \in rows :
                          \A o \in rows : o = i \/ Before(i, o)
         IN  <<first>> \o MostRecentFirst(table, rows \ {first}, ties)

RecentAlerts(table, date, ties) ==
    MostRecentFirst(table,
                    {i \in 1..Len(table) : table[i].date >= date - 7}, ties)

\* serve_alerts without LIMIT: every alert of the window is returned
serve_alerts_unlimited(table, date, exists, ties) ==
    IF ~exists
    THEN [path |-> "/api/alerts", status |-> 404,
          message |-> "No alerts data available"]
    ELSE LET rows == RecentAlerts(table, date, ties)
             data == [k \in 1..Len(rows) |->
                         [date |-> table[rows[k]].date,
                          category |-> table[rows[k]].category,
                          alert_type |-> table[rows[k]].alert_type,
                          message |-> table[rows[k]].message,
                          created_at |-> table[rows[k]].created_at]]
         IN  [path |-> "/api/alerts", status |-> 200, alerts |-> data,
              count |-> Len(data)]

\* the answer of GET /api/alerts, with the path of the request
serve_alerts(table, date, exists, ties) ==
    IF ~exists
    THEN [path |-> "/api/alerts", status |-> 404,
          message |-> "No alerts data available"]
    ELSE LET rows  == RecentAlerts(table, date, ties)
             limit == IF Len(rows) < AlertLimit THEN Len(rows)
                      ELSE AlertLimit
             data  == [k \in 1..limit |->
                          [date |-> table[rows[k]].date,
                           category |-> table[rows[k]].category,
                           alert_type |-> table[rows[k]].alert_type,
                           message |-> table[rows[k]].message,
                           created_at |-> table[rows[k]].created_at]]
         IN  [path |-> "/api/alerts", status |-> 200, alerts |-> data,
              count |-> Len(data)]

(***************************************************************************)
(* The inputs of the model.                                                *)
(***************************************************************************)
\* transactions in one response, where the aggregator is checked
MaxTx == 3
\* runs of the pipeline in one behaviour
MaxRuns == 2
\* earlier days that left a snapshot in the store
MaxHist == 14
\* days that pass during one behaviour
MaxDays == 1
\* the day the behaviour starts on
StartDay == 20

Tx(amount, label) == [amount |-> amount, category_name |-> label]

\* The transactions a response is drawn from: two small outflows of one
\* category, outflows that bring Groceries to 90 %, 100 % and 110 % of its
\* target, one of them labelled with the budget category itself, two raw
\* labels of one budget category, an inflow, a zero amount, a label the
\* mapping does not know, a transaction without category_name, and the
\* raw label of Groceries in lower case.
TxPool ==
    {Tx(-100, ":bagel:  Dining Out"), Tx(-400, ":bagel:  Dining Out"),
     Tx(0, ":bagel:  Dining Out"),
     Tx(-810000, ":carrot:  Groceries"), Tx(-90000, Groceries),
     Tx(500000, ":carrot:  Groceries"),
     Tx(-33330, ":couch:  Shopping"), Tx(-12340, ":yoga:  Personal Care"),
     Tx(-50000, "Transfer"), [amount |-> -25000],
     Tx(-20000, ":carrot:  groceries")}

RECURSIVE SeqsUpTo(_, _)
SeqsUpTo(S, n) ==
    IF n = 0 THEN {<<>>}
    ELSE LET shorter == SeqsUpTo(S, n - 1)
         IN  shorter \cup {Append(s, x) : s \in shorter, x \in S}

TxSeqs == SeqsUpTo(TxPool, MaxTx)

\* The responses a run of the pipeline is drawn from: Groceries at 0 %,
\* 90 %, 100 % and 105.6 % of its target, and 95 % of Dining Out; the one
\* that brings Groceries to 100 % does so with a transaction labelled with
\* the budget category itself, and holds one whose label the mapping does
\* not know and that is no budget category.
RunTxs ==
    {<<>>,
     <<Tx(-810000, ":carrot:  Groceries")>>,
     <<Tx(-810000, ":carrot:  Groceries"), Tx(-90000, Groceries),
       Tx(-5000000, "Transfer")>>,
     <<Tx(-950000, ":carrot:  Groceries"), Tx(-237500, ":bagel:  Dining Out")>>}

\* The configurations calculate_metrics is checked on: the configured
\* targets, and the same with a target of 0.
TargetConfigs ==
    {ConfiguredTargets, [ConfiguredTargets EXCEPT ![Groceries] = 0]}

\* The spending calculate_metrics is called on directly: the example of the
\* specification, and a dict with a key that is no budget category.
SpendingInputs ==
    {(Groceries :> FromInt(950)),
     (Groceries :> FromInt(950)) @@ ("Uncategorized" :> FromInt(5))}

\* SPENDING_ALERT_THRESHOLD: the default and a value above 100
Thresholds == {90, 110}

\* What the provider returns on the days before StartDay: Groceries
\* constant, or Groceries growing by 60 a day.
HistoryPatterns == {"flat", "rising"}

HistoryTxs(pattern, date) ==
    IF pattern = "flat" THEN <<Tx(-450000, ":carrot:  Groceries")>>
    ELSE <<Tx(-60000 * (date - (StartDay - MaxHist) + 1),
              ":carrot:  Groceries")>>

\* days of history in the store when it is queried on its own
MaxPoints == 15

\* How Groceries moves over the days of a stored history: not at all, by
\* 5 a day up or down, by 5.001 a day up or down, by 60 a day up or down,
\* and level with a jump on the last day.
TrendShapes ==
    {"flat", "up5", "down5", "above5", "below5", "rising", "falling", "step"}

\* Groceries on day k of n, in milliunits
ShapeAmount(shape, k, n) ==
    CASE shape = "flat"    -> 100000
      [] shape = "up5"     -> 5000 * k
      [] shape = "down5"   -> 5000 * (n - k + 1)
      [] shape = "above5"  -> 5001 * k
      [] shape = "below5"  -> 5001 * (n - k + 1)
      [] shape = "rising"  -> 60000 * k
      [] shape = "falling" -> 60000 * (n - k + 1)
      [] shape = "step"    -> IF k = n THEN 200000 ELSE 100000

\* the lengths of the stored histories: around the 7 points a trend needs,
\* around the 14 of its window, and one that reaches back beyond 30 days
HistoryLengths == (5..MaxPoints) \cup {MaxPoints + 20}

\* daily_spending after one run a day on the n days up to date, each on one
\* Groceries transaction of the shape's amount
LedgerOf(shape, n, date) ==
    [rows |-> {LET category == TargetOrder[i]
                   target   == ConfiguredTargets[category]
                   spent    == IF category = Groceries
                               THEN FDivInt(FromInt(ShapeAmount(shape, k, n)),
                                            1000)
                               ELSE FZero
               IN  [id |-> Len(TargetOrder) * (k - 1) + i,
                    date |-> date - n + k, category |-> category,
                    amount |-> spent, month_budget |-> FromInt(target),
                    percentage |-> Percentage(spent, target)] :
                   k \in 1..n, i \in 1..Len(TargetOrder)},
     seq |-> Len(TargetOrder) * n]

Ledgers(date) ==
    {LedgerOf(shape, n, date) : shape \in TrendShapes, n \in HistoryLengths}

\* the longest alert log a query is made on
MaxAlerts == 60

\* the lengths of the alert logs: none, one, and around the limit
AlertLogLengths ==
    {0, 1, AlertLimit - 1, AlertLimit, AlertLimit + 1, MaxAlerts}

\* spending_alerts after the runs of the days up to date left n alerts:
\* 7 a day from 4 runs, two by a run (Groceries over budget, Dining Out
\* high) and one by the first run of a day; created_at counts the runs
AlertLogOf(n, date) ==
    [i \in 1..n |->
        LET k     == n - i
            day   == date - k \div 7
            alert == IF k % 2 = 0
                     THEN AlertsOf(Groceries,
                                   [percentage |-> FromInt(105)],
                                   FromInt(90))[1]
                     ELSE AlertsOf(DiningOut,
                                   [percentage |-> FromInt(95)],
                                   FromInt(90))[1]
        IN  AlertRow(alert, day, 4 * day + 3 - (k % 7) \div 2)]

AlertLogs(date) == {AlertLogOf(n, date) : n \in AlertLogLengths}

\* the days a query is made on: the 1st, 15th, 30th and 31st of a month
ReadDays == {2 * DaysInMonth + d : d \in {1, 15, 30, 31}}

\* the days a history query asks for
QueryDays == {0, 7, 30}

(***************************************************************************)
(* The state: the configuration, the clock, the store, and the position    *)
(* and locals of run().                                                    *)
(***************************************************************************)
VARIABLES
    writers,                   \* two processes that run at the same time
    test_mode,                 \* self.test_mode of the instance that runs
    monthly_targets,           \* self.monthly_targets
    spending_alert_threshold,  \* self.spending_alert_threshold
    db_exists,                 \* whether the file of the store exists
    today,                     \* the day datetime.now() is in
    clock,                     \* CURRENT_TIMESTAMP: it ticks with every run
    daily_spending,            \* table daily_spending
    spending_alerts,           \* table spending_alerts
    sent,                      \* Slack messages and emails sent so far
    files,                     \* what /app/reports holds
    pc,                        \* where run() is
    exc,                       \* the exception run() ended with, or "None"
    transactions,              \* the response of the provider
    days,                      \* the days the last history query asked for
    spending_data, metrics, historical_data, trends, alerts,
    response,                  \* the last answer of the API
    runs,                      \* runs started from StartDay on
    history_pattern,           \* what the provider holds before StartDay
    at_start,                  \* store, messages and files when the run began
    last_run                   \* what the last completed run saw and left

vars ==
    <<writers, test_mode, monthly_targets, spending_alert_threshold,
      db_exists, today, clock,
      daily_spending, spending_alerts, sent, files, pc, exc, transactions,
      days, spending_data, metrics, historical_data, trends, alerts,
      response, runs, history_pattern, at_start, last_run>>

\* the snapshots the ledger holds: its rows without their ids
Snapshots(rows) ==
    {[date |-> r.date, category |-> r.category, amount |-> r.amount,
      month_budget |-> r.month_budget, percentage |-> r.percentage] :
        r \in rows}

NoRun ==
    [date |-> 0, transactions |-> <<>>, metrics |-> EmptyDict,
     snapshots |-> {}, nrows |-> 0]

NoResponse == [status |-> 0]

\* the processes that run at the same time, and what one holds before it
\* starts: where it is, its metrics, the table as its open transaction
\* sees it with the categories it has yet to insert, the last id of the
\* table when it committed and when it queried, and its history and trends
Processes == {1, 2}

NotStarted ==
    [pc |-> "idle", exc |-> "None", metrics |-> EmptyDict,
     view |-> EmptyTable, todo |-> <<>>, saved |-> 0, queried |-> 0,
     historical_data |-> EmptyDict, trends |-> EmptyDict]

NoWriters == [r \in Processes |-> NotStarted]

Locals ==
    /\ transactions = <<>>
    /\ days = 0
    /\ spending_data = EmptyDict
    /\ metrics = EmptyDict
    /\ historical_data = EmptyDict
    /\ trends = EmptyDict
    /\ alerts = <<>>

\* /app/reports: the number of enhanced_budget_report_*.html and of
\* budget_data_*.json files, the run that wrote latest_budget_data.json
\* (0: no such file) with the test_mode its content holds, and the number
\* of reports and exports in the subdirectory test/
NoFiles ==
    [reports |-> 0, latest |-> 0, latest_test_mode |-> FALSE,
     timestamped |-> 0, test_reports |-> 0, test_exports |-> 0]

\* nothing sent, /app/reports empty, no request answered
NothingOut ==
    /\ sent = [slack |-> 0, email |-> 0]
    /\ files = NoFiles
    /\ response = NoResponse

\* what a run finds when it begins
Surroundings ==
    [daily_spending |-> daily_spending, spending_alerts |-> spending_alerts,
     sent |-> sent, files |-> files]

\* After __init__ on an empty store, MaxHist days before StartDay.  Until
\* StartDay the pipeline runs once a day on what the provider holds, so the
\* store passes through every history of 1 to MaxHist days; from StartDay on
\* a run may start at any time, on any response of RunTxs.
Init ==
    /\ monthly_targets = ConfiguredTargets
    /\ spending_alert_threshold \in {FromInt(t) : t \in Thresholds}
    /\ db_exists = TRUE
    /\ daily_spending = EmptyTable
    /\ spending_alerts = <<>>
    /\ today = StartDay - MaxHist
    /\ clock = 0
    /\ pc = "idle"
    /\ exc = "None"
    /\ Locals
    /\ writers = NoWriters
    /\ test_mode = FALSE
    /\ NothingOut
    /\ runs = 0
    /\ history_pattern \in HistoryPatterns
    /\ at_start = Surroundings
    /\ last_run = NoRun

\* After __init__ on an empty store, for any of the configurations.
InitFn ==
    /\ monthly_targets \in TargetConfigs
    /\ spending_alert_threshold = FromInt(90)
    /\ db_exists = TRUE
    /\ daily_spending = EmptyTable
    /\ spending_alerts = <<>>
    /\ today = StartDay
    /\ clock = 0
    /\ pc = "idle"
    /\ exc = "None"
    /\ Locals
    /\ writers = NoWriters
    /\ test_mode = FALSE
    /\ NothingOut
    /\ runs = 0
    /\ history_pattern = "flat"
    /\ at_start = Surroundings
    /\ last_run = NoRun

Config ==
    <<test_mode, monthly_targets, spending_alert_threshold, db_exists,
      history_pattern>>
Store  == <<daily_spending, spending_alerts>>
Out    == <<sent, files, response>>

\* whether a run may start
MayStart ==
    IF today < StartDay THEN pc = "idle"
    ELSE pc \in {"idle", "done", "aborted"} /\ runs < MaxRuns

RunsAfterStart == IF today < StartDay THEN runs ELSE runs + 1

\* run() starts: fetch_ynab_data returns process_transactions(response)
FetchFrom(responses) ==
    /\ MayStart
    /\ \E answer \in responses :
          /\ transactions' = answer
          /\ spending_data' = process_transactions(answer, monthly_targets)
    /\ pc' = "fetched"
    /\ exc' = "None"
    /\ runs' = RunsAfterStart
    /\ clock' = clock + 1
    /\ at_start' = Surroundings
    /\ metrics' = EmptyDict
    /\ historical_data' = EmptyDict
    /\ trends' = EmptyDict
    /\ alerts' = <<>>
    /\ UNCHANGED <<Config, writers, today, days, Store, Out, last_run>>

FetchYnabData ==
    FetchFrom(IF today < StartDay
              THEN {HistoryTxs(history_pattern, today)} ELSE RunTxs)

FetchAnyResponse == FetchFrom(TxSeqs)

\* FetchFails with the exception logged only: the run goes on without
\* spending
FetchFails_swallowed ==
    /\ today >= StartDay
    /\ MayStart
    /\ pc' = "fetched"
    /\ exc' = "RequestException"
    /\ runs' = runs + 1
    /\ clock' = clock + 1
    /\ at_start' = Surroundings
    /\ transactions' = <<>>
    /\ spending_data' = EmptyDict
    /\ metrics' = EmptyDict
    /\ historical_data' = EmptyDict
    /\ trends' = EmptyDict
    /\ alerts' = <<>>
    /\ UNCHANGED <<Config, writers, today, days, Store, Out, last_run>>

\* the request fails: fetch_ynab_data logs and raises, and so does run()
FetchFails ==
    /\ today >= StartDay
    /\ MayStart
    /\ pc' = "aborted"
    /\ exc' = "RequestException"
    /\ runs' = runs + 1
    /\ clock' = clock + 1
    /\ at_start' = Surroundings
    /\ transactions' = <<>>
    /\ spending_data' = EmptyDict
    /\ metrics' = EmptyDict
    /\ historical_data' = EmptyDict
    /\ trends' = EmptyDict
    /\ alerts' = <<>>
    /\ UNCHANGED <<Config, writers, today, days, Store, Out, last_run>>

CalculateMetrics ==
    /\ pc = "fetched"
    /\ IF calculate_metrics_raises(spending_data, monthly_targets)
       THEN /\ pc' = "aborted"
            /\ exc' = "ZeroDivisionError"
            /\ UNCHANGED metrics
       ELSE /\ pc' = "metrics"
            /\ metrics' = calculate_metrics(spending_data, monthly_targets)
            /\ UNCHANGED exc
    /\ UNCHANGED <<Config, writers,
                   today, days, clock, Store, Out, transactions,
                   spending_data, historical_data, trends, alerts, runs,
                   at_start, last_run>>

\* calculate_metrics called on a spending dict of the caller's making
CallCalculateMetrics ==
    /\ pc = "idle"
    /\ runs < MaxRuns
    /\ \E spending \in SpendingInputs :
          /\ spending_data' = spending
          /\ IF calculate_metrics_raises(spending, monthly_targets)
             THEN /\ pc' = "aborted"
                  /\ exc' = "ZeroDivisionError"
                  /\ UNCHANGED metrics
             ELSE /\ pc' = "metrics"
                  /\ metrics' = calculate_metrics(spending, monthly_targets)
                  /\ UNCHANGED exc
    /\ runs' = runs + 1
    /\ UNCHANGED <<Config, writers,
                   today, days, clock, Store, Out, transactions,
                   historical_data, trends, alerts, at_start, last_run>>

SaveDailyData ==
    /\ pc = "metrics"
    /\ daily_spending' = save_daily_data(daily_spending, today, metrics)
    /\ pc' = "saved"
    /\ UNCHANGED <<Config, writers,
                   today, days, clock, spending_alerts, Out, exc,
                   transactions, spending_data, metrics, historical_data,
                   trends, alerts, runs, at_start, last_run>>

GetHistoricalData ==
    /\ pc = "saved"
    /\ days' = 30
    /\ historical_data' = get_historical_data(daily_spending, today, days')
    /\ pc' = "queried"
    /\ UNCHANGED <<Config, writers,
                   today, clock, Store, Out, exc, transactions,
                   spending_data, metrics, trends, alerts, runs, at_start,
                   last_run>>

CalculateSpendingTrends ==
    /\ pc = "queried"
    /\ IF calculate_spending_trends_raises(historical_data, today)
       THEN /\ pc' = "aborted"
            /\ exc' = "ZeroDivisionError"
            /\ UNCHANGED trends
       ELSE /\ pc' = "trended"
            /\ trends' = calculate_spending_trends(historical_data, today)
            /\ UNCHANGED exc
    /\ UNCHANGED <<Config, writers,
                   today, days, clock, Store, Out, transactions,
                   spending_data, metrics, historical_data, alerts, runs,
                   at_start, last_run>>

CheckSpendingAlerts ==
    /\ pc = "trended"
    /\ alerts' = check_spending_alerts(metrics, spending_alert_threshold)
    /\ spending_alerts' = record_alerts(spending_alerts, alerts', today,
                                        clock)
    /\ pc' = "alerted"
    /\ UNCHANGED <<Config, writers,
                   today, days, clock, daily_spending, Out, exc,
                   transactions, spending_data, metrics, historical_data,
                   trends, runs, at_start, last_run>>

\* the alerts send_slack_notification posts: those of severity danger
critical_alerts(alert_list) ==
    SelectSeq(alert_list, LAMBDA alert : alert.severity = "danger")

\* send_slack_notification with a webhook configured: one message when an
\* alert is critical, none otherwise
SendSlackNotification ==
    /\ pc = "alerted"
    /\ sent' = IF critical_alerts(alerts) = <<>> THEN sent
               ELSE [sent EXCEPT !.slack = @ + 1]
    /\ pc' = "notified"
    /\ UNCHANGED <<Config, writers,
                   today, days, clock, Store, files, response, exc,
                   transactions, spending_data, metrics, historical_data,
                   trends, alerts, runs, at_start, last_run>>

\* generate_enhanced_html_email and send_email
SendEmail ==
    /\ pc = "notified"
    /\ sent' = [sent EXCEPT !.email = @ + 1]
    /\ pc' = "emailed"
    /\ UNCHANGED <<Config, writers,
                   today, days, clock, Store, files, response, exc,
                   transactions, spending_data, metrics, historical_data,
                   trends, alerts, runs, at_start, last_run>>

\* /app/reports after save_html_report
save_html_report(reports, mode) ==
    IF mode THEN [reports EXCEPT !.test_reports = @ + 1]
    ELSE [reports EXCEPT !.reports = @ + 1]

SaveHtmlReport ==
    /\ pc = "emailed"
    /\ files' = save_html_report(files, test_mode)
    /\ pc' = "reported"
    /\ UNCHANGED <<Config, writers,
                   today, days, clock, Store, sent, response, exc,
                   transactions, spending_data, metrics, historical_data,
                   trends, alerts, runs, at_start, last_run>>

\* export_data_json that writes the files of normal mode in either mode
export_data_json_shared(reports, mode, run) ==
    [reports EXCEPT !.latest = run, !.latest_test_mode = mode,
                    !.timestamped = @ + 1]

\* /app/reports after export_data_json.  In test mode one file is written
\* under test/; in normal mode latest_budget_data.json is overwritten by
\* this run's data, then a timestamped copy is written
export_data_json(reports, mode, run) ==
    IF mode THEN [reports EXCEPT !.test_exports = @ + 1]
    ELSE [reports EXCEPT !.latest = run, !.latest_test_mode = mode,
                         !.timestamped = @ + 1]

ExportDataJson ==
    /\ pc = "reported"
    /\ files' = export_data_json(files, test_mode, clock)
    /\ pc' = "exported"
    /\ UNCHANGED <<Config, writers,
                   today, days, clock, Store, sent, response, exc,
                   transactions, spending_data, metrics, historical_data,
                   trends, alerts, runs, at_start, last_run>>

\* the rest of run(): cleanup_old_files finds no file older than its
\* limits, and the summary is logged
FinishRun ==
    /\ pc = "exported"
    /\ pc' = "done"
    /\ last_run' = [date |-> today, transactions |-> transactions,
                    metrics |-> metrics,
                    snapshots |-> Snapshots(daily_spending.rows),
                    nrows |-> Cardinality(daily_spending.rows)]
    /\ UNCHANGED <<Config, writers,
                   today, days, clock, Store, Out, exc, transactions,
                   spending_data, metrics, historical_data, trends, alerts,
                   runs, at_start>>

\* midnight passes between two runs
NextDay ==
    /\ IF today < StartDay THEN pc = "done"
       ELSE pc \in {"idle", "done", "aborted"} /\ today < StartDay + MaxDays
    /\ today' = today + 1
    /\ pc' = "idle"
    /\ UNCHANGED <<Config, writers,
                   days, clock, Store, Out, exc, transactions,
                   spending_data, metrics, historical_data, trends, alerts,
                   runs, at_start, last_run>>

Next ==
    \/ FetchYnabData
    \/ FetchFails
    \/ CalculateMetrics
    \/ SaveDailyData
    \/ GetHistoricalData
    \/ CalculateSpendingTrends
    \/ CheckSpendingAlerts
    \/ SendSlackNotification
    \/ SendEmail
    \/ SaveHtmlReport
    \/ ExportDataJson
    \/ FinishRun
    \/ NextDay

Spec == Init /\ [][Next]_vars

\* process_transactions and calculate_metrics on their own, on every
\* response of up to MaxTx transactions
NextFn ==
    \/ FetchAnyResponse
    \/ CalculateMetrics
    \/ CallCalculateMetrics

SpecFn == InitFn /\ [][NextFn]_vars

(***************************************************************************)
(* The run with its collaborators failing.  A failure is an exception of   *)
(* the call: of sqlite3 in the three methods that open the store, of       *)
(* requests in the Slack post, of smtplib in send_email, of open() or      *)
(* os in the file writers and the cleanup.  run() logs it and raises it    *)
(* again, except for the Slack post, whose failure is logged only.         *)
(***************************************************************************)
\* the response the failing runs are made on: Groceries over its budget
\* and Dining Out close to its limit
BundleTxs ==
    {<<Tx(-950000, ":carrot:  Groceries"), Tx(-237500, ":bagel:  Dining Out")>>}

\* After __init__ on an empty store, on StartDay.
InitFail ==
    /\ monthly_targets = ConfiguredTargets
    /\ spending_alert_threshold = FromInt(90)
    /\ db_exists = TRUE
    /\ daily_spending = EmptyTable
    /\ spending_alerts = <<>>
    /\ today = StartDay
    /\ clock = 0
    /\ pc = "idle"
    /\ exc = "None"
    /\ Locals
    /\ writers = NoWriters
    /\ test_mode = FALSE
    /\ NothingOut
    /\ runs = 0
    /\ history_pattern = "flat"
    /\ at_start = Surroundings
    /\ last_run = NoRun

FetchOverBudget == FetchFrom(BundleTxs)

\* run() ends with the exception raised at position at; files_after is
\* what the failed call left in /app/reports
Raises(at, name, files_after) ==
    /\ pc = at
    /\ pc' = "aborted"
    /\ exc' = name
    /\ files' = files_after
    /\ UNCHANGED <<Config, writers, today, days, clock, Store, sent, response,
                   transactions, spending_data, metrics, historical_data,
                   trends, alerts, runs, at_start, last_run>>

\* the with block of save_daily_data rolls its INSERTs back
SaveDailyDataFails ==
    Raises("metrics", "sqlite3.Error in save_daily_data", files)

\* get_historical_data has no handler of its own
GetHistoricalDataFails ==
    Raises("saved", "sqlite3.Error in get_historical_data", files)

\* the with block of check_spending_alerts rolls its INSERTs back
CheckSpendingAlertsFails ==
    Raises("trended", "sqlite3.Error in check_spending_alerts", files)

\* the post to the webhook fails: logged, and the run goes on
SendSlackNotificationFails ==
    /\ pc = "alerted"
    /\ critical_alerts(alerts) # <<>>
    /\ pc' = "notified"
    /\ UNCHANGED <<Config, writers,
                   today, days, clock, Store, Out, exc, transactions,
                   spending_data, metrics, historical_data, trends, alerts,
                   runs, at_start, last_run>>

SendEmailFails == Raises("notified", "SMTPException in send_email", files)

SaveHtmlReportFails ==
    Raises("emailed", "OSError in save_html_report", files)

\* export_data_json fails before it wrote latest_budget_data.json, or
\* after that and before it wrote the timestamped copy
ExportDataJsonFails ==
    \/ Raises("reported", "OSError in export_data_json", files)
    \/ /\ ~test_mode
       /\ Raises("reported", "OSError in export_data_json",
                 [files EXCEPT !.latest = clock,
                               !.latest_test_mode = test_mode])

FinishRunFails == Raises("exported", "OSError in cleanup_old_files", files)

NextFail ==
    \/ FetchOverBudget
    \/ FetchFails
    \/ CalculateMetrics
    \/ SaveDailyData
    \/ SaveDailyDataFails
    \/ GetHistoricalData
    \/ GetHistoricalDataFails
    \/ CalculateSpendingTrends
    \/ CheckSpendingAlerts
    \/ CheckSpendingAlertsFails
    \/ SendSlackNotification
    \/ SendSlackNotificationFails
    \/ SendEmail
    \/ SendEmailFails
    \/ SaveHtmlReport
    \/ SaveHtmlReportFails
    \/ ExportDataJson
    \/ ExportDataJsonFails
    \/ FinishRun
    \/ FinishRunFails

SpecFail == InitFail /\ [][NextFail]_vars

(***************************************************************************)
(* Runs in normal and in test mode.  Every run is a process of its own:    *)
(* main() constructs the instance with the mode of its command line, and   *)
(* calls run() or, with --export-only, the calls of run() up to the        *)
(* alerts and then the export.                                             *)
(***************************************************************************)
InitTest ==
    /\ monthly_targets = ConfiguredTargets
    /\ spending_alert_threshold = FromInt(90)
    /\ db_exists = TRUE
    /\ daily_spending = EmptyTable
    /\ spending_alerts = <<>>
    /\ today = StartDay
    /\ clock = 0
    /\ pc = "idle"
    /\ exc = "None"
    /\ Locals
    /\ writers = NoWriters
    /\ test_mode \in BOOLEAN
    /\ NothingOut
    /\ runs = 0
    /\ history_pattern = "flat"
    /\ at_start = Surroundings
    /\ last_run = NoRun

\* what check_latest_data_source returns: whether latest_budget_data.json
\* is there and holds test_mode true
check_latest_data_source(reports) ==
    IF reports.latest = 0 THEN FALSE ELSE reports.latest_test_mode

\* main() constructs the instance of the next run, with --test or without
Construct ==
    /\ pc \in {"idle", "done", "aborted"}
    /\ runs < MaxRuns
    /\ test_mode' = ~test_mode
    /\ pc' = "idle"
    /\ UNCHANGED <<writers, monthly_targets, spending_alert_threshold,
                   db_exists, history_pattern, today, days, clock, Store,
                   Out, exc,
                   transactions, spending_data, metrics, historical_data,
                   trends, alerts, runs, at_start, last_run>>

\* main() with --export-only: after check_spending_alerts the export
ExportOnly ==
    /\ pc = "alerted"
    /\ files' = export_data_json(files, test_mode, clock)
    /\ pc' = "done"
    /\ last_run' = [date |-> today, transactions |-> transactions,
                    metrics |-> metrics,
                    snapshots |-> Snapshots(daily_spending.rows),
                    nrows |-> Cardinality(daily_spending.rows)]
    /\ UNCHANGED <<Config, writers,
                   today, days, clock, Store, sent, response, exc,
                   transactions, spending_data, metrics, historical_data,
                   trends, alerts, runs, at_start>>

NextTest ==
    \/ Construct
    \/ FetchYnabData
    \/ CalculateMetrics
    \/ SaveDailyData
    \/ GetHistoricalData
    \/ CalculateSpendingTrends
    \/ CheckSpendingAlerts
    \/ ExportOnly
    \/ SendSlackNotification
    \/ SendEmail
    \/ SaveHtmlReport
    \/ ExportDataJson
    \/ FinishRun

SpecTest == InitTest /\ [][NextTest]_vars

(***************************************************************************)
(* Two runs at the same time on one store.  save_daily_data runs in one    *)
(* transaction: `with sqlite3.connect(...) as conn` commits when the       *)
(* block ends and rolls back when an exception leaves it.  The first       *)
(* INSERT takes the write lock of the database, which its holder keeps     *)
(* until it commits or rolls back; another process that wants it waits,    *)
(* and gets sqlite3.OperationalError (database is locked) when its         *)
(* timeout ends first.  A reader sees what is committed.                   *)
(***************************************************************************)
\* the responses of the provider to the two runs
RaceTxs ==
    {<<Tx(-810000, ":carrot:  Groceries")>>,
     <<Tx(-950000, ":carrot:  Groceries"), Tx(-237500, ":bagel:  Dining Out")>>}

\* days of history in the store the two runs start on: none, or as many
\* as a trend needs
RaceHistories == {0, 7}

InitRace ==
    /\ monthly_targets = ConfiguredTargets
    /\ spending_alert_threshold = FromInt(90)
    /\ db_exists = TRUE
    /\ today = StartDay
    /\ \E n \in RaceHistories :
          daily_spending = LedgerOf("rising", n, today - 1)
    /\ spending_alerts = <<>>
    /\ clock = 0
    /\ pc = "idle"
    /\ exc = "None"
    /\ Locals
    /\ writers = NoWriters
    /\ test_mode = FALSE
    /\ NothingOut
    /\ runs = 0
    /\ history_pattern = "flat"
    /\ at_start = Surroundings
    /\ last_run = NoRun

\* the frame of a step of one of the two processes
OnlyWriters ==
    UNCHANGED <<Config, today, days, clock, spending_alerts, Out, pc, exc,
                transactions, spending_data, metrics, historical_data,
                trends, alerts, runs, at_start, last_run>>

\* whether another process holds the write lock
LockedByOther(r) == \E o \in Processes \ {r} : writers[o].pc = "writing"

\* fetch_ynab_data and calculate_metrics of process r
StartRun(r) ==
    /\ writers[r].pc = "idle"
    /\ \E answer \in RaceTxs :
          writers' = [writers EXCEPT
              ![r].pc = "metrics",
              ![r].metrics =
                  calculate_metrics(
                      process_transactions(answer, monthly_targets),
                      monthly_targets)]
    /\ UNCHANGED daily_spending
    /\ OnlyWriters

\* save_daily_data of process r reaches its first INSERT and takes the lock
BeginSave(r) ==
    /\ writers[r].pc = "metrics"
    /\ ~LockedByOther(r)
    /\ writers' = [writers EXCEPT
           ![r].pc = "writing",
           ![r].view = daily_spending,
           ![r].todo = SelectSeq(TargetOrder,
                                 LAMBDA c : c \in DOMAIN writers[r].metrics)]
    /\ UNCHANGED daily_spending
    /\ OnlyWriters

\* the lock is held for longer than process r waits: run() ends with
\* sqlite3.OperationalError
SaveBusy(r) ==
    /\ writers[r].pc = "metrics"
    /\ LockedByOther(r)
    /\ writers' = [writers EXCEPT
           ![r].pc = "aborted",
           ![r].exc = "sqlite3.OperationalError: database is locked"]
    /\ UNCHANGED daily_spending
    /\ OnlyWriters

\* one turn of the loop of save_daily_data
InsertRow(r) ==
    /\ writers[r].pc = "writing"
    /\ writers[r].todo # <<>>
    /\ LET category == Head(writers[r].todo)
           data     == writers[r].metrics[category]
       IN  writers' = [writers EXCEPT
               ![r].view =
                   insert_or_replace(writers[r].view,
                       [date |-> today, category |-> category,
                        amount |-> data.spent,
                        month_budget |-> FromInt(data.target),
                        percentage |-> data.percentage]),
               ![r].todo = Tail(writers[r].todo)]
    /\ UNCHANGED daily_spending
    /\ OnlyWriters

\* a rollback that keeps what the transaction wrote
rollback_keeps_written(table, view) == view

\* the table after the rollback of a transaction that saw it as view
rollback(table, view) == table

\* an INSERT of process r raises: the with block rolls back, run() ends
SaveFails(r) ==
    /\ writers[r].pc = "writing"
    /\ writers[r].todo # <<>>
    /\ daily_spending' = rollback(daily_spending, writers[r].view)
    /\ writers' = [writers EXCEPT
           ![r].pc = "aborted",
           ![r].exc = "sqlite3.Error in save_daily_data"]
    /\ OnlyWriters

\* the with block of save_daily_data ends: commit
CommitSave(r) ==
    /\ writers[r].pc = "writing"
    /\ writers[r].todo = <<>>
    /\ daily_spending' = writers[r].view
    /\ writers' = [writers EXCEPT ![r].pc = "saved",
                                  ![r].saved = writers[r].view.seq]
    /\ OnlyWriters

\* the table get_historical_data would read were it called before
\* save_daily_data
QueriedTable_before_save(now, before) == before

\* the table get_historical_data reads: run() calls it after
\* save_daily_data, so the table as it is now, not as it was before the run
QueriedTable(now, before) == now

\* get_historical_data(30) of process r
QueryHistory(r) ==
    /\ writers[r].pc = "saved"
    /\ writers' = [writers EXCEPT
           ![r].pc = "queried",
           ![r].queried = daily_spending.seq,
           ![r].historical_data =
               get_historical_data(
                   QueriedTable(daily_spending, at_start.daily_spending),
                   today, 30)]
    /\ UNCHANGED daily_spending
    /\ OnlyWriters

\* calculate_spending_trends of process r
TrendsOfRun(r) ==
    /\ writers[r].pc = "queried"
    /\ ~calculate_spending_trends_raises(writers[r].historical_data, today)
    /\ writers' = [writers EXCEPT
           ![r].pc = "trended",
           ![r].trends =
               calculate_spending_trends(writers[r].historical_data, today)]
    /\ UNCHANGED daily_spending
    /\ OnlyWriters

NextRace ==
    \/ \E r \in Processes : StartRun(r)
    \/ \E r \in Processes : BeginSave(r)
    \/ \E r \in Processes : SaveBusy(r)
    \/ \E r \in Processes : InsertRow(r)
    \/ \E r \in Processes : SaveFails(r)
    \/ \E r \in Processes : CommitSave(r)
    \/ \E r \in Processes : QueryHistory(r)
    \/ \E r \in Processes : TrendsOfRun(r)

SpecRace == InitRace /\ [][NextRace]_vars

\* A store of some content, and an instance that reads it.
InitRead ==
    /\ monthly_targets = ConfiguredTargets
    /\ spending_alert_threshold = FromInt(90)
    /\ db_exists = TRUE
    /\ today \in ReadDays
    /\ daily_spending \in Ledgers(today)
    /\ spending_alerts = <<>>
    /\ clock = 0
    /\ pc = "idle"
    /\ exc = "None"
    /\ Locals
    /\ writers = NoWriters
    /\ test_mode = FALSE
    /\ NothingOut
    /\ runs = 0
    /\ history_pattern = "flat"
    /\ at_start = Surroundings
    /\ last_run = NoRun

\* get_historical_data called for any number of days
CallGetHistoricalData ==
    /\ pc = "idle"
    /\ db_exists
    /\ \E asked \in QueryDays :
          /\ days' = asked
          /\ historical_data' =
                 get_historical_data(daily_spending, today, asked)
    /\ pc' = "queried"
    /\ UNCHANGED <<Config, writers,
                   today, clock, Store, Out, exc, transactions,
                   spending_data, metrics, trends, alerts, runs, at_start,
                   last_run>>

\* the queries of the pipeline on their own, on every store of Ledgers
NextRead ==
    \/ CallGetHistoricalData
    \/ CalculateSpendingTrends

SpecRead == InitRead /\ [][NextRead]_vars

\* A store as the pipeline left it, or no store file at all, and the
\* readers of it: the API process and get_historical_data.
InitApi ==
    /\ monthly_targets = ConfiguredTargets
    /\ spending_alert_threshold = FromInt(90)
    /\ today \in ReadDays
    /\ \/ /\ db_exists = TRUE
          /\ daily_spending \in {LedgerOf("rising", n, today) :
                                    n \in HistoryLengths}
          /\ spending_alerts = <<>>
       \/ /\ db_exists = TRUE
          /\ daily_spending = EmptyTable
          /\ spending_alerts \in AlertLogs(today)
       \/ /\ db_exists = FALSE
          /\ daily_spending = EmptyTable
          /\ spending_alerts = <<>>
    /\ clock = 0
    /\ pc = "idle"
    /\ exc = "None"
    /\ Locals
    /\ writers = NoWriters
    /\ test_mode = FALSE
    /\ NothingOut
    /\ runs = 0
    /\ history_pattern = "flat"
    /\ at_start = Surroundings
    /\ last_run = NoRun

\* GET /api/history?days=N answered by the API process
ServeHistoricalData ==
    /\ response = NoResponse
    /\ \E asked \in QueryDays :
          response' = serve_historical_data(daily_spending, today, asked,
                                            db_exists)
    /\ UNCHANGED <<Config, writers, today, clock, Store, sent, files, pc, exc,
                   transactions, days, spending_data, metrics,
                   historical_data, trends, alerts, runs, at_start,
                   last_run>>

\* GET /api/alerts answered by the API process
ServeAlerts ==
    /\ response = NoResponse
    /\ \E ties \in {"rowid ascending", "rowid descending"} :
          response' = serve_alerts(spending_alerts, today, db_exists, ties)
    /\ UNCHANGED <<Config, writers, today, clock, Store, sent, files, pc, exc,
                   transactions, days, spending_data, metrics,
                   historical_data, trends, alerts, runs, at_start,
                   last_run>>

NextApi ==
    \/ CallGetHistoricalData
    \/ ServeHistoricalData
    \/ ServeAlerts

SpecApi == InitApi /\ [][NextApi]_vars

(***************************************************************************)
(* The properties of the aggregator and of the metrics, under SpecFn.      *)
(***************************************************************************)
Permuted(s, p) == [i \in 1..Len(s) |-> s[p[i]]]

\* C1: process_transactions returns the same category -> total mapping for
\* every permutation of the transactions of the response.
AggregateOrderIndependent ==
    pc = "fetched" =>
        \A p \in Permutations(1..Len(transactions)) :
            process_transactions(Permuted(transactions, p), monthly_targets)
                = spending_data

\* the category a transaction counts for
MappedCategoryOf(transaction) ==
    DictGet(category_mapping, CategoryNameOf(transaction),
            CategoryNameOf(transaction))

\* the outflows of the response that map to category c, in their order
OutflowsOf(c) ==
    SelectSeq(transactions,
              LAMBDA t : t.amount < 0 /\ MappedCategoryOf(t) = c)

\* abs(amount) of each, converted from minor units
ConvertedAmounts(s) ==
    [i \in 1..Len(s) |-> FDivInt(FromInt(Abs(s[i].amount)), 1000)]

\* C2: the total of a configured category c is the sum, taken in the order
\* of the response, of abs(amount) converted from minor units over exactly
\* the transactions with amount < 0 that map to c; a category without such
\* a transaction has no total, no other key has one, and the transactions
\* with amount >= 0 contribute nothing.
AggregateSumsOutflows ==
    pc = "fetched" =>
        /\ DOMAIN spending_data
               = {c \in DOMAIN monthly_targets : OutflowsOf(c) # <<>>}
        /\ \A c \in DOMAIN spending_data :
               spending_data[c] = FSum(ConvertedAmounts(OutflowsOf(c)))
        /\ process_transactions(
               SelectSeq(transactions, LAMBDA t : t.amount < 0),
               monthly_targets) = spending_data

AggregateSumsOutflowsWitness ==
    /\ pc = "fetched"
    /\ \E c \in DOMAIN spending_data : Len(OutflowsOf(c)) >= 2
    /\ \E i \in 1..Len(transactions) :
          /\ transactions[i].amount > 0
          /\ MappedCategoryOf(transactions[i]) \in DOMAIN spending_data

\* C3: calculate_metrics returns a metric for exactly the configured
\* categories; a configured category absent from the spending has spent 0
\* and percentage 0, and a key outside the configured set has no metric.
MetricsForConfiguredCategories ==
    pc = "metrics" =>
        /\ DOMAIN metrics = DOMAIN monthly_targets
        /\ \A c \in DOMAIN monthly_targets :
               /\ metrics[c].spent = DictGet(spending_data, c, FZero)
               /\ c \notin DOMAIN spending_data =>
                      /\ metrics[c].spent = FZero
                      /\ metrics[c].percentage = FZero

MetricsForConfiguredCategoriesWitness ==
    /\ pc = "metrics"
    /\ \E k \in DOMAIN spending_data : k \notin DOMAIN monthly_targets
    /\ \E c \in DOMAIN monthly_targets : c \notin DOMAIN spending_data
    /\ \E c \in DOMAIN monthly_targets : c \in DOMAIN spending_data

\* C4: with percentage = spent / target * 100, the status of a metric is
\* Over Budget when percentage > 100, Close to Limit when
\* 90 < percentage <= 100 and On Track when percentage <= 90, and it is
\* one of the three.
StatusFollowsPercentage ==
    pc = "metrics" =>
        \A c \in DOMAIN metrics :
            LET m == metrics[c]
                p == m.percentage
            IN  /\ monthly_targets[c] > 0 =>
                       p = FMulInt(FDivInt(m.spent, monthly_targets[c]), 100)
                /\ m.status \in {"Over Budget", "Close to Limit", "On Track"}
                /\ m.status = "Over Budget" <=> FGt(p, FromInt(100))
                /\ m.status = "Close to Limit" <=>
                       FGt(p, FromInt(90)) /\ FLe(p, FromInt(100))
                /\ m.status = "On Track" <=> FLe(p, FromInt(90))

StatusFollowsPercentageWitness ==
    /\ pc = "metrics"
    /\ metrics[Groceries].percentage = FromInt(100)
    /\ metrics[Groceries].status = "Close to Limit"
    /\ \E c \in DOMAIN metrics : metrics[c].status = "On Track"

\* C5: a category whose target is 0 gets percentage 0, and calculate_metrics
\* does not end in a division by zero.
ZeroTargetGivesZeroPercentage ==
    /\ exc # "ZeroDivisionError"
    /\ pc = "metrics" =>
           \A c \in DOMAIN metrics :
               monthly_targets[c] = 0 => metrics[c].percentage = FZero

ZeroTargetGivesZeroPercentageWitness ==
    /\ pc = "metrics"
    /\ monthly_targets[Groceries] = 0
    /\ FGt(metrics[Groceries].spent, FZero)
    /\ metrics[Groceries].percentage = FZero

(***************************************************************************)
(* The properties of the store, of the alerts and of the trends, under     *)
(* Spec.                                                                   *)
(***************************************************************************)
AfterSave == {"saved", "queried", "trended", "alerted"}

\* C6: the ledger holds at most one row per (date, category), and after an
\* append the row of (today, category) carries the values of that append:
\* when a second append is made for the same date and category, its values
\* are the ones the ledger shows.
LedgerOneRowPerKey ==
    /\ Cardinality({<<r.date, r.category>> : r \in daily_spending.rows})
           = Cardinality(daily_spending.rows)
    /\ pc \in AfterSave =>
           \A c \in DOMAIN metrics :
               \E r \in daily_spending.rows :
                   /\ r.date = today
                   /\ r.category = c
                   /\ r.amount = metrics[c].spent
                   /\ r.month_budget = FromInt(metrics[c].target)
                   /\ r.percentage = metrics[c].percentage

LedgerOneRowPerKeyWitness ==
    /\ pc = "saved"
    /\ last_run.date = today
    /\ last_run.metrics[Groceries].spent # metrics[Groceries].spent

SameRunAgain ==
    /\ last_run.date = today
    /\ last_run.transactions = transactions

\* C7: a run on the same transactions and the same date as the run before
\* it computes the same metrics and leaves the ledger as that run left it:
\* the same snapshots, one per category for the date, and no more rows.
RerunIsIdempotent ==
    /\ (pc \in {"metrics"} \cup AfterSave /\ SameRunAgain) =>
           metrics = last_run.metrics
    /\ (pc \in AfterSave /\ SameRunAgain) =>
           /\ Snapshots(daily_spending.rows) = last_run.snapshots
           /\ Cardinality(daily_spending.rows) = last_run.nrows
           /\ \A c \in DOMAIN monthly_targets :
                  Cardinality({r \in daily_spending.rows :
                                  r.date = today /\ r.category = c}) = 1

RerunIsIdempotentWitness ==
    /\ pc = "saved"
    /\ SameRunAgain
    /\ transactions # <<>>
    /\ runs >= 2

AlertsFor(c) == SelectSeq(alerts, LAMBDA a : a.category = c)

HighSpendingAlert(c) ==
    /\ Len(AlertsFor(c)) = 1
    /\ AlertsFor(c)[1].type = "high_spending"
    /\ AlertsFor(c)[1].severity = "warning"

OverBudgetAlert(c) ==
    /\ Len(AlertsFor(c)) = 1
    /\ AlertsFor(c)[1].type = "over_budget"
    /\ AlertsFor(c)[1].severity = "danger"

\* C8, as the specification states it: a category gets a high_spending
\* alert of severity warning when T <= p < 100, an over_budget alert of
\* severity danger when p >= 100, and no alert when p < T; it gets at most
\* one alert.
AlertsByThreshold ==
    pc = "alerted" =>
        \A c \in DOMAIN metrics :
            LET p == metrics[c].percentage
                T == spending_alert_threshold
            IN  /\ Len(AlertsFor(c)) <= 1
                /\ (FLe(T, p) /\ FLt(p, FromInt(100))) => HighSpendingAlert(c)
                /\ FGe(p, FromInt(100)) => OverBudgetAlert(c)
                /\ FLt(p, T) => AlertsFor(c) = <<>>

\* C8, as the code has it: a category gets a high_spending alert of
\* severity warning when T <= p < 100, an over_budget alert of severity
\* danger when p >= 100, and no alert when p < T and p < 100; it gets at
\* most one alert, and every alert is for a category of the metrics.
AlertsByThresholdBelowHundred ==
    pc = "alerted" =>
        /\ \A i \in 1..Len(alerts) : alerts[i].category \in DOMAIN metrics
        /\ \A c \in DOMAIN metrics :
            LET p == metrics[c].percentage
                T == spending_alert_threshold
            IN  /\ Len(AlertsFor(c)) <= 1
                /\ (FLe(T, p) /\ FLt(p, FromInt(100))) => HighSpendingAlert(c)
                /\ FGe(p, FromInt(100)) => OverBudgetAlert(c)
                /\ (FLt(p, T) /\ FLt(p, FromInt(100))) => AlertsFor(c) = <<>>

AlertsByThresholdBelowHundredWitness ==
    /\ pc = "alerted"
    /\ spending_alert_threshold = FromInt(90)
    /\ metrics[Groceries].percentage = FromInt(90)
    /\ HighSpendingAlert(Groceries)
    /\ FLt(metrics[DiningOut].percentage, FromInt(90))
    /\ AlertsFor(DiningOut) = <<>>

\* the categories check_spending_alerts returns an alert for
AlertedCategories ==
    {c \in DOMAIN metrics :
        \/ FGe(metrics[c].percentage, spending_alert_threshold)
        \/ FGe(metrics[c].percentage, FromInt(100))}

\* C9: the alert log only grows at its end: no step changes or removes a
\* row, only check_spending_alerts adds rows, and it adds one row for each
\* alert it returns, in their order, whatever the log holds already; so a
\* category at or above the threshold gets one more row with every run.
AlertLogAppendOnly ==
    [][/\ Len(spending_alerts') >= Len(spending_alerts)
       /\ SubSeq(spending_alerts', 1, Len(spending_alerts)) = spending_alerts
       /\ IF pc = "trended" /\ pc' = "alerted"
          THEN /\ Len(spending_alerts')
                      = Len(spending_alerts) + Len(alerts')
               /\ \A i \in 1..Len(alerts') :
                      spending_alerts'[Len(spending_alerts) + i]
                          = AlertRow(alerts'[i], today, clock)
               /\ \A c \in AlertedCategories :
                      Cardinality({i \in 1..Len(spending_alerts') :
                                      spending_alerts'[i].category = c})
                          = Cardinality({i \in 1..Len(spending_alerts) :
                                      spending_alerts[i].category = c}) + 1
          ELSE spending_alerts' = spending_alerts]_vars

AlertLogAppendOnlyWitness ==
    /\ pc = "alerted"
    /\ alerts # <<>>
    /\ \E i, j \in 1..Len(spending_alerts) :
          /\ i < j
          /\ spending_alerts[i].created_at # spending_alerts[j].created_at
          /\ [spending_alerts[i] EXCEPT !.created_at = 0]
                 = [spending_alerts[j] EXCEPT !.created_at = 0]

\* C10: calculate_spending_trends returns a trend for exactly the
\* categories with 7 data points or more, 7 being enough, and the
\* denominator n * sum_x2 - sum_x^2 of each slope it computes is positive.
TrendsNeedSevenPoints ==
    /\ exc # "ZeroDivisionError"
    /\ pc \in {"trended", "alerted"} =>
           /\ DOMAIN trends = {c \in DOMAIN historical_data :
                                  Len(historical_data[c]) >= 7}
           /\ \A c \in DOMAIN trends :
                  RegressionDenominator(
                      Len(WindowAmounts(historical_data[c]))) > 0

TrendsNeedSevenPointsWitness ==
    /\ pc = "trended"
    /\ Len(historical_data[Groceries]) = 7
    /\ Groceries \in DOMAIN trends
    /\ Len(WindowAmounts(historical_data[Groceries])) = 7

(***************************************************************************)
(* The properties of the trends, under SpecRead.                           *)
(***************************************************************************)
\* the amounts the trend of category c was computed from
TrendWindow(c) == WindowAmounts(historical_data[c])

\* whether a float is a whole number, and the whole number it is
IsWhole(x) == x.m = <<>> \/ x.e >= 0

WholeOf(x) == (IF x.s = 1 THEN -1 ELSE 1) * NToInt(x.m) * 2 ^ x.e

\* n * sum(x * y) - sum(x) * sum(y) for x = 0 .. n-1, in whole numbers
LeastSquaresNumerator(ys) ==
    LET n == Len(ys)
    IN  n * SumInts([i \in 1..n |-> (i - 1) * ys[i]])
            - SumInts([i \in 1..n |-> i - 1]) * SumInts(ys)

\* n * sum(x * x) - sum(x)^2 for x = 0 .. n-1 is n^2 (n^2 - 1) / 12
LeastSquaresDenominator(n) == (n * n * (n * n - 1)) \div 12

StepExample == [i \in 1..7 |-> FromInt(IF i = 7 THEN 200 ELSE 100)]

\* C11: the trend of a category is Increasing exactly when its slope is
\* above 5, Decreasing exactly when it is below -5 and Stable otherwise, a
\* slope of 5 or -5 being Stable; the slope is the least-squares slope of
\* the amounts over the day indexes 0 .. n-1; and the seven amounts 100,
\* 100, 100, 100, 100, 100, 200 have a positive slope and are Increasing.
TrendFollowsSlope ==
    pc = "trended" =>
        \A c \in DOMAIN trends :
            LET t       == trends[c]
                amounts == TrendWindow(c)
                n       == Len(amounts)
            IN  /\ t.trend \in {"Increasing", "Decreasing", "Stable"}
                /\ t.trend = "Increasing" <=> FGt(t.slope, FromInt(5))
                /\ t.trend = "Decreasing" <=> FLt(t.slope, FromInt(-5))
                /\ t.trend = "Stable" <=>
                       FLe(t.slope, FromInt(5)) /\ FGe(t.slope, FromInt(-5))
                /\ (\A i \in 1..n : IsWhole(amounts[i])) =>
                       t.slope =
                           FDivInt(FromInt(LeastSquaresNumerator(
                                       [i \in 1..n |-> WholeOf(amounts[i])])),
                                   LeastSquaresDenominator(n))
                /\ amounts = StepExample =>
                       FGt(t.slope, FZero) /\ t.trend = "Increasing"

TrendFollowsSlopeWitness ==
    /\ pc = "trended"
    /\ Groceries \in DOMAIN trends
    /\ TrendWindow(Groceries) = StepExample
    /\ trends[Groceries].trend = "Increasing"

\* C12: the projected total of a category with a trend is its last amount
\* plus max(0, slope * (30 - day of month)), and so it is never below the
\* last amount, whatever the sign of the slope and the day of the month.
ProjectionFloorsAtLast ==
    pc = "trended" =>
        \A c \in DOMAIN trends :
            LET t       == trends[c]
                amounts == TrendWindow(c)
                last    == amounts[Len(amounts)]
                extra   == FMulInt(t.slope, 30 - DayOfMonth(today))
            IN  /\ t.projected_total =
                       FAdd(last, IF FGt(extra, FZero) THEN extra ELSE FZero)
                /\ FGe(t.projected_total, last)

ProjectionFloorsAtLastWitness ==
    /\ pc = "trended"
    /\ Groceries \in DOMAIN trends
    /\ FLt(trends[Groceries].slope, FZero)
    /\ DayOfMonth(today) < 30
    /\ trends[Groceries].projected_total
           = TrendWindow(Groceries)[Len(TrendWindow(Groceries))]
    /\ FGt(trends[Groceries].projected_total, FZero)

(***************************************************************************)
(* The pipeline from the spending to the alerts, under Spec.               *)
(***************************************************************************)
AfterAlerts == {"alerted", "notified", "emailed", "reported", "exported",
                "done"}

GroceriesAt950 ==
    /\ monthly_targets[Groceries] = 900
    /\ Groceries \in DOMAIN spending_data
    /\ spending_data[Groceries] = FromInt(950)

\* C13: with a Groceries target of 900 and Groceries spending of 950 the
\* metric of Groceries has spent 950, target 900, a percentage above 100
\* that prints as 105.6 and the status Over Budget, and
\* check_spending_alerts returns one alert for Groceries, of type
\* over_budget and severity danger.
GroceriesOverBudgetEndToEnd ==
    GroceriesAt950 =>
        /\ pc \in {"metrics"} \cup AfterSave \cup AfterAlerts =>
               LET m == metrics[Groceries]
               IN  /\ m.spent = FromInt(950)
                   /\ m.target = 900
                   /\ FGt(m.percentage, FromInt(100))
                   /\ FRoundToInt(FMulInt(m.percentage, 10)) = 1056
                   /\ m.status = "Over Budget"
        /\ pc \in AfterAlerts => OverBudgetAlert(Groceries)

GroceriesOverBudgetEndToEndWitness ==
    /\ pc = "alerted"
    /\ GroceriesAt950
    /\ spending_alert_threshold = FromInt(90)
    /\ OverBudgetAlert(Groceries)
    /\ \E i \in 1..Len(spending_alerts) :
          /\ spending_alerts[i].category = Groceries
          /\ spending_alerts[i].alert_type = "over_budget"
          /\ spending_alerts[i].created_at = clock

(***************************************************************************)
(* The window and the forecast of a trend, under SpecRead.                 *)
(***************************************************************************)
\* the amounts of the last min(14, n) of n points, oldest first
RecentAmounts(points) ==
    LET n == Len(points)
        k == IF n < 14 THEN n ELSE 14
    IN  [i \in 1..k |-> points[n - k + i].amount]

\* the points with the amount of every point before the last 14 set to 0
OlderForgotten(points) ==
    [i \in 1..Len(points) |->
        IF i <= Len(points) - 14 THEN [points[i] EXCEPT !.amount = FZero]
        ELSE points[i]]

\* C23: the trend of a category is that of the amounts of its last
\* min(14, n) points, oldest first: its slope is their slope over the day
\* indexes 0 .. min(14, n) - 1, its forecast starts from the last of them,
\* its average is that of the last 7 of them, and the trends are what they
\* would be were the amounts of all older points 0.
TrendUsesLastFourteen ==
    pc = "trended" =>
        /\ \A c \in DOMAIN trends :
               LET recent == RecentAmounts(historical_data[c])
                   extra  == FMulInt(Slope(recent), 30 - DayOfMonth(today))
               IN  /\ trends[c].slope = Slope(recent)
                   /\ trends[c].projected_total =
                          FAdd(recent[Len(recent)],
                               IF FGt(extra, FZero) THEN extra ELSE FZero)
                   /\ trends[c].avg_daily =
                          Mean([i \in 1..7 |-> recent[Len(recent) - 7 + i]])
        /\ trends = calculate_spending_trends(
                        [c \in DOMAIN historical_data |->
                            OlderForgotten(historical_data[c])], today)

\* a trend on a history of more than 14 points whose older amounts are not
\* 0 and would change the slope
TrendUsesLastFourteenWitness ==
    /\ pc = "trended"
    /\ Groceries \in DOMAIN trends
    /\ Len(historical_data[Groceries]) > 14
    /\ FGt(historical_data[Groceries][1].amount, FZero)
    /\ trends[Groceries].slope
           # Slope(WindowAmounts_whole(historical_data[Groceries]))

\* C24: a category whose slope is zero or negative has its last amount as
\* projected total, on every day of the month, and the days left in the
\* month, 30 - day of month, are never negative.
NonRisingForecastIsLast ==
    pc = "trended" =>
        \A c \in DOMAIN trends :
            FLe(trends[c].slope, FZero) =>
                /\ trends[c].projected_total
                       = TrendWindow(c)[Len(TrendWindow(c))]
                /\ 30 - DayOfMonth(today) >= 0

(***************************************************************************)
(* Two runs at the same time, under SpecRace.                              *)
(***************************************************************************)
\* whether process r has left save_daily_data, or run() altogether
Finished(r) == writers[r].pc \in {"saved", "queried", "trended", "aborted"}

\* whether a row of the ledger holds what process r wrote for its category
WrittenBy(r, row) ==
    /\ writers[r].saved > 0
    /\ row.amount = writers[r].metrics[row.category].spent
    /\ row.month_budget = FromInt(writers[r].metrics[row.category].target)
    /\ row.percentage = writers[r].metrics[row.category].percentage

RowsOfToday == {row \in daily_spending.rows : row.date = today}

\* C21: after both runs have finished the ledger holds one row per date
\* and category, every row of today holds the values one of the two runs
\* wrote for its category, and all of them are those of the run that
\* committed last.
RaceIsLastWriterWins ==
    (\A r \in Processes : Finished(r)) =>
        /\ \A a, b \in daily_spending.rows :
               (a.date = b.date /\ a.category = b.category) => a = b
        /\ \A row \in RowsOfToday : \E r \in Processes : WrittenBy(r, row)
        /\ \A r \in Processes :
               (/\ writers[r].saved > 0
                /\ \A o \in Processes : writers[o].saved <= writers[r].saved)
                   => \A row \in RowsOfToday : WrittenBy(r, row)

\* both runs committed, the second after the first, on different spending
RaceIsLastWriterWinsWitness ==
    /\ \A r \in Processes : Finished(r)
    /\ writers[1].saved > 0
    /\ writers[2].saved > writers[1].saved
    /\ writers[1].metrics[Groceries].spent = FromInt(950)
    /\ writers[2].metrics[Groceries].spent = FromInt(810)
    /\ \E row \in RowsOfToday :
          row.category = Groceries /\ row.amount = FromInt(810)
    /\ Cardinality(RowsOfToday) = Len(TargetOrder)

\* C27: every date of the ledger has a row for every configured category,
\* and the rows of the days before today are those the store held at the
\* start, whatever the runs of today did, failed ones included.
SnapshotIsAtomic ==
    /\ \A d \in {row.date : row \in daily_spending.rows} :
           {row.category : row \in {o \in daily_spending.rows : o.date = d}}
               = DOMAIN monthly_targets
    /\ daily_spending.rows \ RowsOfToday
           = {row \in at_start.daily_spending.rows : row.date # today}

\* a run failed in save_daily_data after some of its INSERTs and before
\* others, on a store that holds earlier days
SnapshotIsAtomicWitness ==
    /\ \E r \in Processes :
          /\ writers[r].exc = "sqlite3.Error in save_daily_data"
          /\ Len(writers[r].todo) > 0
          /\ Len(writers[r].todo) < Len(TargetOrder)
          /\ writers[r].view # daily_spending
    /\ RowsOfToday = {}
    /\ daily_spending.rows # {}

\* whether every trend of process r ends at what r computed as spent today
EndsAtOwnSpending(r) ==
    \A c \in DOMAIN writers[r].trends :
        LET points == writers[r].historical_data[c]
            last   == points[Len(points)]
            spent  == writers[r].metrics[c].spent
            extra  == FMulInt(writers[r].trends[c].slope,
                              30 - DayOfMonth(today))
        IN  /\ last.date = today
            /\ last.amount = spent
            /\ writers[r].trends[c].projected_total =
                   FAdd(spent, IF FGt(extra, FZero) THEN extra ELSE FZero)

\* C26, as the claim states it: the last point of every trend of a run,
\* and the base of its forecast, is the amount spent the run computed.
TrendEndsAtOwnSpending ==
    \A r \in Processes :
        writers[r].pc = "trended" => EndsAtOwnSpending(r)

\* C26, as the code has it: the last point of every trend of a run, and
\* the base of its forecast, is the amount spent the run computed,
\* provided no other run committed a snapshot between the commit of the
\* run and its query.
TrendEndsAtOwnSpendingUnlessOverwritten ==
    \A r \in Processes :
        (writers[r].pc = "trended" /\ writers[r].queried = writers[r].saved)
            => EndsAtOwnSpending(r)

\* a run has its trend of Groceries from the snapshot it saved itself,
\* after another run had saved a different one
TrendEndsAtOwnSpendingUnlessOverwrittenWitness ==
    \E r \in Processes, o \in Processes :
        /\ writers[r].pc = "trended"
        /\ Groceries \in DOMAIN writers[r].trends
        /\ writers[r].queried = writers[r].saved
        /\ writers[o].saved > 0
        /\ writers[o].saved < writers[r].saved
        /\ writers[o].metrics[Groceries].spent
               # writers[r].metrics[Groceries].spent

(***************************************************************************)
(* Test mode, under SpecTest.                                              *)
(***************************************************************************)
\* C22: latest_budget_data.json, when present, holds test_mode false, and
\* a run in test mode leaves it, the production exports and the
\* production reports as they were when the run began: what it writes is
\* under test/.
TestExportIsIsolated ==
    /\ files.latest > 0 => ~files.latest_test_mode
    /\ ~check_latest_data_source(files)
    /\ (test_mode /\ pc \notin {"idle"}) =>
           /\ files.latest = at_start.files.latest
           /\ files.latest_test_mode = at_start.files.latest_test_mode
           /\ files.timestamped = at_start.files.timestamped
           /\ files.reports = at_start.files.reports

\* a run in test mode has written its export under test/, after a run in
\* normal mode wrote latest_budget_data.json
TestExportIsIsolatedWitness ==
    /\ test_mode
    /\ pc = "exported"
    /\ files.test_exports = 1
    /\ files.test_reports = 1
    /\ files.latest > 0
    /\ files.latest < clock
    /\ files.timestamped = 1

\* C28: a run in test mode leaves daily_spending and spending_alerts as
\* they were when it began.
TestRunLeavesStoreUnchanged ==
    (test_mode /\ pc \notin {"idle"}) =>
        /\ daily_spending = at_start.daily_spending
        /\ spending_alerts = at_start.spending_alerts

(***************************************************************************)
(* The mapping and the case of letters, under SpecFn.                      *)
(***************************************************************************)
\* str.lower() on the labels of the mapping and of TxPool
Lower(label) ==
    CASE label = ":carrot:  Groceries"              -> ":carrot:  groceries"
      [] label = ":couch:  Shopping"                -> ":couch:  shopping"
      [] label = ":yoga:  Personal Care"            -> ":yoga:  personal care"
      [] label = ":bottle:  Baby Supplies"          -> ":bottle:  baby supplies"
      [] label = ":bagel:  Dining Out"              -> ":bagel:  dining out"
      [] label = ":fuel:  Gas"                      -> ":fuel:  gas"
      [] label = ":doctor:  Medical & Pediatric"
            -> ":doctor:  medical & pediatric"
      [] label = ":guidedog:  Pet Stuff"            -> ":guidedog:  pet stuff"
      [] label = ":repeat:   Subscriptions"         -> ":repeat:   subscriptions"
      [] label = ":popcorn:  Entertainment"         -> ":popcorn:  entertainment"
      [] label = ":hammer:  Home Maintenance / HOA"
            -> ":hammer:  home maintenance / hoa"
      [] label = Groceries                          -> ":carrot: groceries"
      [] label = "Transfer"                         -> "transfer"
      [] label = "Uncategorized"                    -> "uncategorized"
      [] label = ":carrot:  groceries"              -> ":carrot:  groceries"

\* the label as the mapping writes it, when the mapping holds it in some
\* case of its letters
AsMapped(label) ==
    IF \E key \in DOMAIN category_mapping : Lower(key) = Lower(label)
    THEN CHOOSE key \in DOMAIN category_mapping : Lower(key) = Lower(label)
    ELSE label

\* C20: labels that differ only in the case of their letters map to one
\* budget category and are summed into one total: the aggregation of a
\* response is the aggregation of the same response with every label
\* written as the mapping writes it.
MappingIgnoresCase ==
    pc = "fetched" =>
        spending_data
          = process_transactions(
                [i \in 1..Len(transactions) |->
                    IF "category_name" \in DOMAIN transactions[i]
                    THEN [transactions[i] EXCEPT
                              !.category_name = AsMapped(@)]
                    ELSE transactions[i]],
                monthly_targets)

(***************************************************************************)
(* The categories of a run, under Spec.                                    *)
(***************************************************************************)
\* the labels of the outflows of the response that the mapping does not know
UnmappedLabels ==
    {CategoryNameOf(transactions[i]) : i \in {j \in 1..Len(transactions) :
                                                 transactions[j].amount < 0}}
        \ DOMAIN category_mapping

\* C19: the keys of spending_data and of metrics, and the categories of
\* the alerts returned and of the rows of spending_alerts, are keys of
\* monthly_targets; the label of an outflow that the mapping does not know
\* is a key of spending_data if and only if it is a key of monthly_targets.
CategoriesAreConfigured ==
    /\ DOMAIN spending_data \subseteq DOMAIN monthly_targets
    /\ DOMAIN metrics \subseteq DOMAIN monthly_targets
    /\ \A i \in 1..Len(alerts) :
           alerts[i].category \in DOMAIN monthly_targets
    /\ \A i \in 1..Len(spending_alerts) :
           spending_alerts[i].category \in DOMAIN monthly_targets
    /\ \A r \in daily_spending.rows : r.category \in DOMAIN monthly_targets
    /\ \A label \in UnmappedLabels :
           label \in DOMAIN spending_data <=> label \in DOMAIN monthly_targets

\* a run on an outflow labelled Transfer, which is dropped, and one labelled
\* with the budget category Groceries, which brings Groceries to 100 % and
\* to an alert
CategoriesAreConfiguredWitness ==
    /\ pc = "alerted"
    /\ UnmappedLabels = {"Transfer", Groceries}
    /\ "Transfer" \notin DOMAIN spending_data
    /\ spending_data[Groceries] = FromInt(900)
    /\ \E i \in 1..Len(alerts) : alerts[i].category = Groceries
    /\ \E i \in 1..Len(spending_alerts) :
          /\ spending_alerts[i].category = Groceries
          /\ spending_alerts[i].created_at = clock

\* C25: with a threshold of 90 the alert of a category is that of its
\* status: an over_budget alert exactly when it is Over Budget, a
\* high_spending alert exactly when it is Close to Limit, and no alert
\* exactly when it is On Track.
AlertAgreesWithStatus ==
    (pc = "alerted" /\ spending_alert_threshold = FromInt(90)) =>
        \A c \in DOMAIN metrics :
            /\ metrics[c].status = "Over Budget" <=> OverBudgetAlert(c)
            /\ metrics[c].status = "Close to Limit" <=> HighSpendingAlert(c)
            /\ metrics[c].status = "On Track" <=> AlertsFor(c) = <<>>

(***************************************************************************)
(* The queries of the store, under SpecApi.                                *)
(***************************************************************************)
\* the snapshots of the ledger dated on or after the cutoff
SnapshotsSince(asked) ==
    {r \in daily_spending.rows : r.date >= today - asked}

\* C17: get_historical_data returns exactly the snapshots dated on or after
\* today minus the requested days: its keys are their categories, the
\* points of a category are its snapshots among them, each once, in
\* ascending order of date.  The answer of /api/history holds the same
\* snapshots, each once, in ascending order of date.
HistoryQueryIsExact ==
    /\ pc \in {"queried", "trended"} =>
           /\ DOMAIN historical_data
                  = {r.category : r \in SnapshotsSince(days)}
           /\ \A c \in DOMAIN historical_data :
                  LET points == historical_data[c]
                      stored == {r \in SnapshotsSince(days) : r.category = c}
                  IN  /\ Len(points) = Cardinality(stored)
                      /\ \A i \in 1..Len(points) :
                             \E r \in stored :
                                /\ points[i].date = r.date
                                /\ points[i].amount = r.amount
                                /\ points[i].percentage = r.percentage
                      /\ \A i, j \in 1..Len(points) :
                             i < j => points[i].date < points[j].date
    /\ "data" \in DOMAIN response =>
           LET data   == response.data
               stored == SnapshotsSince(response.days)
           IN  /\ response.start_date = today - response.days
               /\ response.count = Cardinality(stored)
               /\ Len(data) = Cardinality(stored)
               /\ {data[i] : i \in 1..Len(data)}
                      = {[date |-> r.date, category |-> r.category,
                          amount |-> r.amount, percentage |-> r.percentage,
                          month_budget |-> r.month_budget] : r \in stored}
               /\ \A i \in 1..Len(data) - 1 :
                      data[i].date <= data[i + 1].date

\* a query for 7 days on a ledger that holds the cutoff day and the day
\* before it: the 8 days from the cutoff on are returned, by both readers
HistoryQueryIsExactWitness ==
    /\ pc = "queried"
    /\ days = 7
    /\ \E r \in daily_spending.rows : r.date = today - 8
    /\ Len(historical_data[Groceries]) = 8
    /\ historical_data[Groceries][1].date = today - 7
    /\ "data" \in DOMAIN response
    /\ response.days = 7
    /\ response.count = 8 * Len(TargetOrder)
    /\ response.count < Cardinality(daily_spending.rows)

\* the positions of the alerts of the log dated within the last 7 days
AlertsInWindow ==
    {i \in 1..Len(spending_alerts) : spending_alerts[i].date >= today - 7}

\* C18: the answer to the alert query holds only alerts of the log dated
\* within the last 7 days, each once, in descending order of created_at,
\* none of them older than an alert of the window it leaves out, and never
\* more than 50 of them (all of the window when these are fewer); when the
\* store file is missing the answer is a 404 response.
AlertQueryIsBounded ==
    ("path" \in DOMAIN response /\ response.path = "/api/alerts") =>
        IF ~db_exists
        THEN response.status = 404 /\ "alerts" \notin DOMAIN response
        ELSE LET data == response.alerts
             IN  /\ response.status = 200
                 /\ response.count = Len(data)
                 /\ Len(data) <= 50
                 /\ Len(data) < 50 => Len(data) = Cardinality(AlertsInWindow)
                 /\ Cardinality({data[k] : k \in 1..Len(data)}) = Len(data)
                 /\ \A k \in 1..Len(data) :
                        \E i \in AlertsInWindow : data[k] = spending_alerts[i]
                 /\ \A k \in 1..Len(data) - 1 :
                        data[k].created_at >= data[k + 1].created_at
                 /\ \A i \in AlertsInWindow :
                        \/ \E k \in 1..Len(data) : data[k] = spending_alerts[i]
                        \/ spending_alerts[i].created_at
                               <= data[Len(data)].created_at

\* a log of more alerts than the limit, some of them older than the window
\* and more than 50 within it: the 50 most recent are returned
AlertQueryIsBoundedWitness ==
    /\ "alerts" \in DOMAIN response
    /\ Cardinality(AlertsInWindow) > 50
    /\ Cardinality(AlertsInWindow) < Len(spending_alerts)
    /\ response.count = 50
    /\ response.alerts[1] = spending_alerts[Len(spending_alerts)]

(***************************************************************************)
(* The run and its failures: C14 under Spec, C15 and C16 under SpecFail.   *)
(***************************************************************************)
\* C14: a run whose fetch fails aborts, and the ledger, the alert log, the
\* Slack messages and emails sent, and the reports and exports written
\* are what they were when the run began (and stay so until the next run,
\* also over midnight).
FetchFailureLeavesNoTrace ==
    exc = "RequestException" =>
        /\ pc \in {"aborted", "idle"}
        /\ daily_spending = at_start.daily_spending
        /\ spending_alerts = at_start.spending_alerts
        /\ sent = at_start.sent
        /\ files = at_start.files

FetchFailureLeavesNoTraceWitness ==
    /\ pc = "aborted"
    /\ exc = "RequestException"
    /\ daily_spending.rows # {}
    /\ spending_alerts # <<>>
    /\ sent.email > 0
    /\ files.latest > 0

\* whether the run that began at at_start has sent its email, and whether
\* it has written its export, both files of it
EmailSent == sent.email > at_start.sent.email

ExportWritten ==
    /\ files.latest = clock
    /\ files.timestamped > at_start.files.timestamped

\* C15: a run that has ended, completed or aborted, has sent its email
\* exactly if it has written its JSON export.
BundleIsAllOrNothing ==
    (runs > 0 /\ pc \in {"done", "aborted"}) => (EmailSent <=> ExportWritten)

\* C16: a run does not end in get_historical_data: when the store cannot
\* be read, the run goes on without history.
HistoryReadFailureIsNoData ==
    exc = "sqlite3.Error in get_historical_data" => pc # "aborted"
====
